---- MODULE Spec2Model ----
(***************************************************************************)
(* Collaborative Canvas: the server side session/state engine.             *)
(*                                                                         *)
(*   drawing-state.js  DrawingState  (command log with undo flags)         *)
(*   rooms.js          Room, RoomManager                                   *)
(*   server.js         the socket.io event handlers                        *)
(*                                                                         *)
(*   canvas.js         CanvasManager (the client's copy of the log)        *)
(*   main.js           the client's socket handlers                        *)
(*                                                                         *)
(* One action per socket.io handler.  Node runs every handler to           *)
(* completion, so a handler is one atomic step.  Date.now() timestamps are *)
(* not modelled (no handler reads them).  Spec and SpecLog are the server  *)
(* alone; SpecClient adds the browser of every connection.                 *)
(***************************************************************************)
EXTENDS Integers, Sequences, FiniteSets, TLC

\* ------------------------------------------------------------------ bounds
MaxSockets  == 2     \* socket connections ever opened
MaxUuid     == 2     \* uuidv4() calls (one per successful join)
MaxStrokes  == 1     \* strokes alive at once (in flight or committed), Spec
MaxPoints   == 2     \* points accumulated by one in-flight stroke
MaxLogLen   == 3     \* entries in the command log, SpecLog
MaxInbox    == 2     \* messages on their way to one browser, SpecClient
MaxJoins    == 12    \* join_room events, SpecPalette

\* --------------------------------------------------------- program constants
PaletteSize == 10    \* USER_COLORS.length

USER_COLORS ==
  << "#e74c3c", "#3498db", "#2ecc71", "#f39c12", "#9b59b6",
     "#1abc9c", "#e67e22", "#e91e63", "#00bcd4", "#ff5722" >>

\* ------------------------------------------------------------ input domains
Sockets   == 1..MaxSockets
RoomIds   == {"r1", "r2"}
StrokeIds == {"a", "b"}
P0        == [x |-> 0, y |-> 0]
P1        == [x |-> 1, y |-> 1]
Points    == {P0, P1}
Tools     == {"brush"}
Colors    == {"#000000"}
Widths    == {4}

NULL == "null"

\* roomId as it arrives in a join_room payload: a JS value with its type
RoomIdInputs ==
  { [t |-> "string", v |-> r] : r \in RoomIds \cup {""} }
    \cup { [t |-> "number", v |-> "7"] }

\* userName as it arrives in a join_room payload (names here are shorter
\* than the 30 characters slice(0, 30) keeps)
UserNameInputs ==
  { [t |-> "undefined", v |-> ""],
    [t |-> "number", v |-> "5"] }

\* points of a draw_start / draw_continue payload: <<>> is a missing field
\* (undefined), <<seq>> is an array
CursorPoints   == {P0}
StartPoints    == { <<>>, << <<P0>> >> }
ContinuePoints == { <<>>, << <<P1>> >> }

\* ------------------------------------------------------------------- state
VARIABLES
  rooms,            \* roomManager.rooms : roomId -> Room
  inFlightStrokes,  \* roomId -> (strokeId -> stroke)
  sockState,        \* per socket: "pending" | "connected" | "closed"
  currentRoom,      \* per socket closure: roomId or NULL
  currentUser,      \* per socket closure: partial map socket -> user
  socketRooms,      \* socket.io adapter: the rooms each socket is joined to
  nextUuid,         \* the next uuidv4() value
  emitted,          \* per socket: the messages the last handler emitted to it
  history,          \* per room instance: what was appended, and undo order
  inbox,            \* per socket: the messages on their way to its browser
  client,           \* per socket: the browser's state (main.js, CanvasManager)
  frames            \* per socket: the pending requestAnimationFrame callbacks

serverVars == << rooms, inFlightStrokes, sockState, currentRoom, currentUser,
                 socketRooms, nextUuid, emitted, history >>

clientVars == << inbox, client, frames >>

vars == << rooms, inFlightStrokes, sockState, currentRoom, currentUser,
           socketRooms, nextUuid, emitted, history, inbox, client, frames >>

\* --------------------------------------------------------------- JS Map ops
EmptyMap == [k \in {} |-> TRUE]

MapHas(m, k) == k \in DOMAIN m

MapSet(m, k, v) == [x \in (DOMAIN m) \cup {k} |-> IF x = k THEN v ELSE m[x]]

MapDelete(m, k) == [x \in (DOMAIN m) \ {k} |-> m[x]]

\* the greatest number of a non-empty finite set
MaxOfSet(S) == CHOOSE m \in S : \A x \in S : x <= m

\* ------------------------------------------------- drawing-state.js
\* new DrawingState()
NewDrawingState == [commandLog |-> <<>>, commandIndex |-> EmptyMap]

\* command with its undone field set to b (a command has no undone field
\* until addCommand gives it one)
withUndone(command, b) ==
  [id          |-> command.id,
   authorId    |-> command.authorId,
   authorName  |-> command.authorName,
   authorColor |-> command.authorColor,
   points      |-> command.points,
   color       |-> command.color,
   width       |-> command.width,
   tool        |-> command.tool,
   undone      |-> b]

\* addCommand with unshift() in place of push(): the new command goes first
addCommandUnshift(ds, command) ==
  [commandLog   |-> << withUndone(command, FALSE) >> \o ds.commandLog,
   commandIndex |-> MapSet(ds.commandIndex, command.id, Len(ds.commandLog))]

\* addCommand that stores the command at the indexed position of its id when
\* the id is indexed already
addCommandReplace(ds, command) ==
  IF MapHas(ds.commandIndex, command.id)
  THEN [ds EXCEPT !.commandLog[ds.commandIndex[command.id] + 1] =
                     withUndone(command, FALSE)]
  ELSE [commandLog   |-> Append(ds.commandLog, withUndone(command, FALSE)),
        commandIndex |-> MapSet(ds.commandIndex, command.id,
                                Len(ds.commandLog))]

\* DrawingState.addCommand: undone := false, index the id (the index is the
\* 0-based array index, the length before the push), push.
addCommand(ds, command) ==
  [commandLog   |-> Append(ds.commandLog, withUndone(command, FALSE)),
   commandIndex |-> MapSet(ds.commandIndex, command.id, Len(ds.commandLog))]

\* the scan of undo() run forwards: the least position whose entry is not
\* undone
RECURSIVE undoScanForward(_, _)
undoScanForward(log, i) ==
  LET j == Len(log) - i + 1
  IN  IF i < 1 THEN 0
      ELSE IF ~log[j].undone THEN j
      ELSE undoScanForward(log, i - 1)

\* the backwards scan of undo(): the greatest position i <= from whose entry
\* is not undone, 0 when the loop runs out (positions are 1-based here)
RECURSIVE undoScan(_, _)
undoScan(log, i) ==
  IF i < 1 THEN 0
  ELSE IF ~log[i].undone THEN i
  ELSE undoScan(log, i - 1)

\* the scan of redo() run forwards: the least position whose entry is undone
RECURSIVE redoScanForward(_, _)
redoScanForward(log, i) ==
  LET j == Len(log) - i + 1
  IN  IF i < 1 THEN 0
      ELSE IF log[j].undone THEN j
      ELSE redoScanForward(log, i - 1)

\* the backwards scan of redo(): the greatest position whose entry is undone
RECURSIVE redoScan(_, _)
redoScan(log, i) ==
  IF i < 1 THEN 0
  ELSE IF log[i].undone THEN i
  ELSE redoScan(log, i - 1)

\* undo() whose loop starts one entry too early (length - 2)
undoSkipLast(ds) ==
  LET i == undoScan(ds.commandLog, Len(ds.commandLog) - 1)
  IN  IF i = 0
      THEN [ds |-> ds, result |-> <<>>, pos |-> 0]
      ELSE [ds     |-> [ds EXCEPT !.commandLog[i].undone = TRUE],
            result |-> << [action |-> "undo", commandId |-> ds.commandLog[i].id] >>,
            pos    |-> i]

\* undo() that takes the entry out of the log (splice) in place of flagging
\* it
undoSplice(ds) ==
  LET i == undoScan(ds.commandLog, Len(ds.commandLog))
  IN  IF i = 0
      THEN [ds |-> ds, result |-> <<>>, pos |-> 0]
      ELSE [ds     |-> [ds EXCEPT !.commandLog =
                          SubSeq(ds.commandLog, 1, i - 1)
                            \o SubSeq(ds.commandLog, i + 1, Len(ds.commandLog))],
            result |-> << [action |-> "undo", commandId |-> ds.commandLog[i].id] >>,
            pos    |-> i]

\* DrawingState.undo: the new state, the returned value (<<>> is null) and
\* the position that was flipped (0 when none)
undo(ds) ==
  LET i == undoScan(ds.commandLog, Len(ds.commandLog))
  IN  IF i = 0
      THEN [ds |-> ds, result |-> <<>>, pos |-> 0]
      ELSE [ds     |-> [ds EXCEPT !.commandLog[i].undone = TRUE],
            result |-> << [action |-> "undo", commandId |-> ds.commandLog[i].id] >>,
            pos    |-> i]

\* redo() that falls back to the first entry when its loop finds nothing
redoDefaultFirst(ds) ==
  LET f == redoScan(ds.commandLog, Len(ds.commandLog))
      i == IF f = 0 /\ Len(ds.commandLog) > 0 THEN 1 ELSE f
  IN  IF i = 0
      THEN [ds |-> ds, result |-> <<>>, pos |-> 0]
      ELSE [ds     |-> [ds EXCEPT !.commandLog[i].undone = FALSE],
            result |-> << [action |-> "redo", commandId |-> ds.commandLog[i].id] >>,
            pos    |-> i]

\* redo() that gives up when the last entry of the log is not undone: a new
\* commit ends the redo history
redoOnlyAtEnd(ds) ==
  LET n == Len(ds.commandLog)
  IN  IF n = 0 \/ ~ds.commandLog[n].undone
      THEN [ds |-> ds, result |-> <<>>, pos |-> 0]
      ELSE [ds     |-> [ds EXCEPT !.commandLog[n].undone = FALSE],
            result |-> << [action |-> "redo", commandId |-> ds.commandLog[n].id] >>,
            pos    |-> n]

\* DrawingState.redo
redo(ds) ==
  LET i == redoScan(ds.commandLog, Len(ds.commandLog))
  IN  IF i = 0
      THEN [ds |-> ds, result |-> <<>>, pos |-> 0]
      ELSE [ds     |-> [ds EXCEPT !.commandLog[i].undone = FALSE],
            result |-> << [action |-> "redo", commandId |-> ds.commandLog[i].id] >>,
            pos    |-> i]

\* getFullState that leaves the undone entries out
getFullStateActive(ds) == SelectSeq(ds.commandLog, LAMBDA cmd : ~cmd.undone)

\* DrawingState.getFullState
getFullState(ds) == ds.commandLog

\* DrawingState.getActiveCommands
getActiveCommands(ds) == SelectSeq(ds.commandLog, LAMBDA cmd : ~cmd.undone)

\* ------------------------------------------------------------ rooms.js
\* new Room(roomId)
NewRoom(roomId) ==
  [id |-> roomId, users |-> EmptyMap, drawingState |-> NewDrawingState,
   colorIndex |-> 0]

\* the user built with the colour picked by users.size in place of colorIndex
newUserBySize(room, socketId, name, uuid) ==
  [id       |-> uuid,
   name     |-> name,
   color    |-> USER_COLORS[(Cardinality(DOMAIN room.users) % PaletteSize) + 1],
   socketId |-> socketId]

\* Room.addUser: the user it builds
newUser(room, socketId, name, uuid) ==
  [id       |-> uuid,
   name     |-> name,
   color    |-> USER_COLORS[(room.colorIndex % PaletteSize) + 1],
   socketId |-> socketId]

\* Room.addUser: the room after it
addUser(room, socketId, name, uuid) ==
  [room EXCEPT !.colorIndex = room.colorIndex + 1,
               !.users = MapSet(room.users, socketId,
                                newUser(room, socketId, name, uuid))]

\* Room.removeUser: the room after it
removeUser(room, socketId) ==
  [room EXCEPT !.users = MapDelete(room.users, socketId)]

\* Room.removeUser without its return statement: the caller gets undefined
removedUserOfNone(room, socketId) == <<>>

\* Room.removeUser: the value it returns (<<>> is null)
removedUserOf(room, socketId) ==
  IF MapHas(room.users, socketId) THEN << room.users[socketId] >> ELSE <<>>

\* Room.getUserList: the users without their socketId
getUserList(room) ==
  { [id |-> u.id, name |-> u.name, color |-> u.color] :
      u \in { room.users[k] : k \in DOMAIN room.users } }

\* isEmpty written as this.users.length === 0: a Map has no length, the
\* comparison is never true
isEmptyByLength(room) == FALSE

\* Room.isEmpty
isEmpty(room) == DOMAIN room.users = {}

\* RoomManager.getOrCreateRoom: the registry after it
getOrCreateRoom(rs, roomId) ==
  IF MapHas(rs, roomId) THEN rs ELSE MapSet(rs, roomId, NewRoom(roomId))

\* deleteRoom that forgets this.rooms.delete(roomId)
deleteRoomNoop(rs, roomId) == rs

\* RoomManager.deleteRoom
deleteRoom(rs, roomId) == MapDelete(rs, roomId)

\* ----------------------------------------------------------- server.js
\* getInFlightForRoom: the table of tables after it
getInFlightForRoom(ifs, roomId) ==
  IF MapHas(ifs, roomId) THEN ifs ELSE MapSet(ifs, roomId, EmptyMap)

\* io.emit(...) in place of io.to(roomId).emit(...): every connected socket
ioToEveryone(sr, roomId) == { k \in Sockets : sr[k] # {} }

\* the sockets socket.io delivers io.to(roomId).emit(...) to, under the
\* adapter membership sr
ioTo(sr, roomId) == { k \in Sockets : roomId \in sr[k] }

\* io.to(roomId).emit(...) in place of socket.to(roomId).emit(...): the
\* sender is not left out
socketToWithSender(sr, s, roomId) == ioTo(sr, roomId)

\* socket.broadcast.emit(...) in place of socket.to(roomId).emit(...): every
\* connected socket but the sender
socketToAll(sr, s, roomId) == { k \in Sockets : sockState[k] = "connected" } \ {s}

\* socket.emit(...) in place of socket.to(roomId).emit(...): the sender alone
socketToSelf(sr, s, roomId) == {s}

\* the sockets socket.io delivers socket.to(roomId).emit(...) to
socketTo(sr, s, roomId) == ioTo(sr, roomId) \ {s}

NoEmit == [k \in Sockets |-> <<>>]

\* append msg to the outbox of every socket in targets
Emit(out, targets, msg) ==
  [k \in Sockets |-> IF k \in targets THEN Append(out[k], msg) ELSE out[k]]

\* ------------------------------------------------------------- observers
\* the positions of log whose entry is not undone / is undone
activePositions(log) == { i \in 1..Len(log) : ~log[i].undone }
undonePositions(log) == { i \in 1..Len(log) : log[i].undone }

\* the ids of seq's commands, in order
idsOf(seq) == [i \in 1..Len(seq) |-> seq[i].id]

\* What is recorded of one room instance.
\*   appended     the commands in the order addCommand received them
\*   flipped      whether undo() or redo() ever flipped a flag
\*   undoneOrder  the positions of the entries now undone, in the order
\*                undo() flipped them
\*   undoRun      the positions flipped by the successful undos that ran one
\*                after the other, no other event of the room in between,
\*                up to now (<<>> when the room's last event was another)
\*   runBase      the active positions before the first undo of undoRun
\*   beforeUndo   << ids of the active commands before the last undo of
\*                undoRun >>, <<>> when undoRun is empty
NewHistory ==
  [appended |-> <<>>, flipped |-> FALSE, undoneOrder |-> <<>>,
   undoRun |-> <<>>, runBase |-> {}, beforeUndo |-> <<>>]

\* the registry's history after getOrCreateRoom(roomId) on registry rs
historyAfterGet(h, rs, roomId) ==
  IF MapHas(rs, roomId) THEN h ELSE [h EXCEPT ![roomId] = NewHistory]

\* an event of room r other than a successful undo ends the run of undos
touch(h, r) ==
  IF r \in RoomIds
  THEN [h EXCEPT ![r].undoRun = <<>>, ![r].runBase = {},
                 ![r].beforeUndo = <<>>]
  ELSE h

\* seq without its elements equal to x
Without(seq, x) == SelectSeq(seq, LAMBDA e : e # x)

\* ------------------------------------------------ canvas.js / main.js
\* the browser after DOMContentLoaded: main.js's myUser (<<>> is null) and
\* currentStrokeId, and the CanvasManager's commandLog, commandIndex and
\* activeStrokes
NewClient ==
  [myUser |-> <<>>, currentStrokeId |-> NULL, commandLog |-> <<>>,
   commandIndex |-> EmptyMap, activeStrokes |-> EmptyMap, userList |-> {}]

\* addUserToList: an li per user, none added when one with the id is there
addUserToList(c, user) ==
  IF \E u \in c.userList : u.id = user.id THEN c
  ELSE [c EXCEPT !.userList = @ \cup {user}]

\* updateUserList: the list is emptied, then addUserToList for every user
updateUserList(c, users) == [c EXCEPT !.userList = users]

\* removeUserFromList
removeUserFromList(c, userId) ==
  [c EXCEPT !.userList = { u \in @ : u.id # userId }]

\* commandLog.forEach((cmd, i) => commandIndex.set(cmd.id, i)): the last
\* index of every id
indexOf(log) ==
  [id \in { log[i].id : i \in 1..Len(log) } |->
     MaxOfSet({ i \in 1..Len(log) : log[i].id = id }) - 1]

\* CanvasManager.setCommandLog
setCommandLog(c, commandLog) ==
  [c EXCEPT !.commandLog = commandLog, !.commandIndex = indexOf(commandLog)]

\* addCommand without its activeStrokes.delete(command.id)
canvasAddCommandKeepsStroke(c, command) ==
  [c EXCEPT !.commandIndex = MapSet(@, command.id, Len(c.commandLog)),
            !.commandLog = Append(@, command)]

\* CanvasManager.addCommand
canvasAddCommand(c, command) ==
  [c EXCEPT !.commandIndex = MapSet(@, command.id, Len(c.commandLog)),
            !.commandLog = Append(@, command),
            !.activeStrokes = MapDelete(@, command.id)]

\* the entry of the client's log at 0-based index idx with undone set to b
\* (an index past the end of the array throws; the handler stops there)
setUndoneAt(c, idx, b) ==
  IF idx + 1 <= Len(c.commandLog)
  THEN [c EXCEPT !.commandLog[idx + 1].undone = b]
  ELSE c

\* CanvasManager.handleUndo
handleUndo(c, commandId) ==
  IF MapHas(c.commandIndex, commandId)
  THEN setUndoneAt(c, c.commandIndex[commandId], TRUE)
  ELSE c

\* CanvasManager.handleRedo
handleRedo(c, commandId) ==
  IF MapHas(c.commandIndex, commandId)
  THEN setUndoneAt(c, c.commandIndex[commandId], FALSE)
  ELSE c

\* CanvasManager.handleRemoteDrawStart (points is <<>> or <<seq>>)
handleRemoteDrawStart(c, strokeId, points, color, width, tool) ==
  [c EXCEPT !.activeStrokes = MapSet(@, strokeId,
     [points |-> IF points = <<>> THEN <<>> ELSE points[1],
      color |-> color, width |-> width, tool |-> tool, isLocal |-> FALSE])]

\* CanvasManager.handleRemoteDrawContinue (push(...undefined) throws)
handleRemoteDrawContinue(c, strokeId, points) ==
  IF MapHas(c.activeStrokes, strokeId) /\ points # <<>>
  THEN [c EXCEPT !.activeStrokes[strokeId].points = @ \o points[1]]
  ELSE c

\* onPointerDown: CanvasManager.startLocalStroke and currentStrokeId
startLocalStroke(c, strokeId, p, color, width, tool) ==
  [c EXCEPT !.currentStrokeId = strokeId,
            !.activeStrokes = MapSet(@, strokeId,
               [points |-> << p >>, color |-> color, width |-> width,
                tool |-> tool, isLocal |-> TRUE])]

\* ---------------------------------------------------------------- Init
Init ==
  /\ rooms = EmptyMap
  /\ inFlightStrokes = EmptyMap
  /\ sockState = [k \in Sockets |-> "pending"]
  /\ currentRoom = [k \in Sockets |-> NULL]
  /\ currentUser = EmptyMap
  /\ socketRooms = [k \in Sockets |-> {}]
  /\ nextUuid = 1
  /\ emitted = NoEmit
  /\ history = [r \in RoomIds |-> NewHistory]
  /\ inbox = [k \in Sockets |-> <<>>]
  /\ client = [k \in Sockets |-> NewClient]
  /\ frames = [k \in Sockets |-> <<>>]

\* io.on('connection'): the closure starts with currentRoom = currentUser = null
Connect(s) ==
  /\ sockState[s] = "pending"
  /\ sockState' = [sockState EXCEPT ![s] = "connected"]
  /\ emitted' = NoEmit
  /\ UNCHANGED << rooms, inFlightStrokes, currentRoom, currentUser,
                  socketRooms, nextUuid, history >>

\* the validation without its !roomId: only the type is looked at
invalidRoomIdTypeOnly(roomId) == roomId.t # "string"

\* !roomId || typeof roomId !== 'string'
invalidRoomId(roomId) == roomId.t # "string" \/ roomId.v = ""

\* (userName || '').slice(0, 30) || 'Anonymous'
safeNameOf(userName) ==
  IF userName.t = "string" /\ userName.v # "" THEN userName.v ELSE "Anonymous"

\* socket.on('join_room')
JoinRoom(s, roomId, userName) ==
  /\ sockState[s] = "connected"
  /\ IF invalidRoomId(roomId)
     THEN /\ emitted' = Emit(NoEmit, {s},
                 [event |-> "error", message |-> "Invalid room ID"])
          /\ history' = touch(history, currentRoom[s])
          /\ UNCHANGED << rooms, inFlightStrokes, sockState, currentRoom,
                          currentUser, socketRooms, nextUuid >>
     ELSE IF userName.t = "number"
     THEN \* a truthy non-string has no slice(): TypeError, caught
          /\ emitted' = Emit(NoEmit, {s},
                 [event |-> "error", message |-> "Failed to join room"])
          /\ history' = touch(history, currentRoom[s])
          /\ UNCHANGED << rooms, inFlightStrokes, sockState, currentRoom,
                          currentUser, socketRooms, nextUuid >>
     ELSE LET rid      == roomId.v
              safeName == safeNameOf(userName)
              \* socket.leave(currentRoom): the adapter only
              left     == IF currentRoom[s] # NULL
                          THEN socketRooms[s] \ {currentRoom[s]}
                          ELSE socketRooms[s]
              rooms1   == getOrCreateRoom(rooms, rid)
              user     == newUser(rooms1[rid], s, safeName, nextUuid)
              rooms2   == [rooms1 EXCEPT
                             ![rid] = addUser(@, s, safeName, nextUuid)]
              sr       == [socketRooms EXCEPT ![s] = left \cup {rid}]
              out1     == Emit(NoEmit, {s},
                            [event      |-> "room_state",
                             users      |-> getUserList(rooms2[rid]),
                             commandLog |-> getFullState(rooms2[rid].drawingState),
                             myUser     |-> user])
              out2     == Emit(out1, socketTo(sr, s, rid),
                            [event |-> "user_joined",
                             user  |-> [id |-> user.id, name |-> user.name,
                                        color |-> user.color]])
          IN  /\ rooms' = rooms2
              /\ currentUser' = MapSet(currentUser, s, user)
              /\ currentRoom' = [currentRoom EXCEPT ![s] = rid]
              /\ socketRooms' = sr
              /\ nextUuid' = nextUuid + 1
              /\ emitted' = out2
              /\ history' = touch(touch(historyAfterGet(history, rooms, rid),
                                        rid), currentRoom[s])
              /\ UNCHANGED << inFlightStrokes, sockState >>

\* if (!currentRoom || !currentUser) return;
notJoined(s) == currentRoom[s] = NULL \/ ~MapHas(currentUser, s)

\* a handler that answers an event it does not serve with an error
IgnoredAnswered(s) ==
  /\ emitted' = Emit(NoEmit, {s},
                     [event |-> "error", message |-> "Not in a room"])
  /\ UNCHANGED << rooms, inFlightStrokes, sockState, currentRoom,
                  currentUser, socketRooms, nextUuid, history >>

\* a handler that returns at its first line: nothing changes, nothing is sent
Ignored(s) ==
  /\ emitted' = NoEmit
  /\ UNCHANGED << rooms, inFlightStrokes, sockState, currentRoom,
                  currentUser, socketRooms, nextUuid, history >>

\* the in-flight entry draw_start stores
newStroke(s, points, color, width, tool) ==
  [points      |-> IF points = <<>> THEN <<>> ELSE points[1],
   color       |-> color,
   width       |-> width,
   tool        |-> tool,
   authorId    |-> currentUser[s].id,
   authorName  |-> currentUser[s].name,
   authorColor |-> currentUser[s].color]

\* socket.on('draw_start')
DrawStart(s, strokeId, points, color, width, tool) ==
  /\ sockState[s] = "connected"
  /\ IF notJoined(s)
     THEN Ignored(s)
     ELSE LET r    == currentRoom[s]
              ifs1 == getInFlightForRoom(inFlightStrokes, r)
          IN  /\ inFlightStrokes' =
                   [ifs1 EXCEPT ![r] = MapSet(@, strokeId,
                        newStroke(s, points, color, width, tool))]
              /\ emitted' = Emit(NoEmit, socketTo(socketRooms, s, r),
                   [event |-> "draw_start", strokeId |-> strokeId,
                    points |-> points, color |-> color, width |-> width,
                    tool |-> tool, authorId |-> currentUser[s].id,
                    authorColor |-> currentUser[s].color])
              /\ history' = touch(history, r)
              /\ UNCHANGED << rooms, sockState, currentRoom, currentUser,
                              socketRooms, nextUuid >>

\* if (!stroke) ...: the sender is told that the stroke is unknown
strokeNotFoundAnswered(s, ifs1) ==
  /\ inFlightStrokes' = ifs1
  /\ emitted' = Emit(NoEmit, {s},
                     [event |-> "error", message |-> "Unknown stroke"])

\* if (!stroke) return;  (ifs1: the tables after getInFlightForRoom)
strokeNotFound(s, ifs1) ==
  /\ inFlightStrokes' = ifs1
  /\ emitted' = NoEmit

\* stroke.points.unshift(...points): the new points go first
pushPointsFront(acc, points) == points \o acc

\* stroke.points.push(...points)
pushPoints(acc, points) == acc \o points

\* socket.on('draw_continue')
DrawContinue(s, strokeId, points) ==
  /\ sockState[s] = "connected"
  /\ IF notJoined(s)
     THEN Ignored(s)
     ELSE LET r    == currentRoom[s]
              ifs1 == getInFlightForRoom(inFlightStrokes, r)
          IN  /\ history' = touch(history, r)
              /\ UNCHANGED << rooms, sockState, currentRoom, currentUser,
                              socketRooms, nextUuid >>
              /\ IF ~MapHas(ifs1[r], strokeId)
                 THEN strokeNotFound(s, ifs1)
                 ELSE IF points = <<>>
                 THEN \* push(...undefined) throws a TypeError, caught, logged
                      /\ inFlightStrokes' = ifs1
                      /\ emitted' = NoEmit
                 ELSE /\ inFlightStrokes' =
                           [ifs1 EXCEPT ![r][strokeId].points =
                                         pushPoints(@, points[1])]
                      /\ emitted' = Emit(NoEmit, socketTo(socketRooms, s, r),
                           [event |-> "draw_continue", strokeId |-> strokeId,
                            points |-> points])

\* the command draw_end builds from the in-flight entry
buildCommand(strokeId, stroke) ==
  [id          |-> strokeId,
   authorId    |-> stroke.authorId,
   authorName  |-> stroke.authorName,
   authorColor |-> stroke.authorColor,
   points      |-> stroke.points,
   color       |-> stroke.color,
   width       |-> stroke.width,
   tool        |-> stroke.tool]

\* socket.on('draw_end')
DrawEnd(s, strokeId) ==
  /\ sockState[s] = "connected"
  /\ IF notJoined(s)
     THEN Ignored(s)
     ELSE LET r    == currentRoom[s]
              ifs1 == getInFlightForRoom(inFlightStrokes, r)
          IN  /\ UNCHANGED << sockState, currentRoom, currentUser,
                              socketRooms, nextUuid >>
              /\ IF ~MapHas(ifs1[r], strokeId)
                 THEN /\ strokeNotFound(s, ifs1)
                      /\ history' = touch(history, r)
                      /\ UNCHANGED rooms
                 ELSE LET stroke  == ifs1[r][strokeId]
                          command == buildCommand(strokeId, stroke)
                          rooms1  == getOrCreateRoom(rooms, r)
                          h1      == historyAfterGet(history, rooms, r)
                          ds2     == addCommand(rooms1[r].drawingState, command)
                      IN  /\ inFlightStrokes' =
                               [ifs1 EXCEPT ![r] = MapDelete(@, strokeId)]
                          /\ rooms' = [rooms1 EXCEPT ![r].drawingState = ds2]
                          /\ history' = touch([h1 EXCEPT ![r].appended =
                                                 Append(@, command)], r)
                          \* the emitted fullCommand is the object in the log
                          /\ emitted' = Emit(NoEmit, ioTo(socketRooms, r),
                               [event |-> "draw_end", strokeId |-> strokeId,
                                fullCommand |->
                                  ds2.commandLog[Len(ds2.commandLog)]])

\* socket.on('cursor_move')
CursorMove(s, p) ==
  /\ sockState[s] = "connected"
  /\ IF notJoined(s)
     THEN Ignored(s)
     ELSE /\ emitted' = Emit(NoEmit, socketTo(socketRooms, s, currentRoom[s]),
                 [event |-> "cursor_move", userId |-> currentUser[s].id,
                  name |-> currentUser[s].name, color |-> currentUser[s].color,
                  x |-> p.x, y |-> p.y])
          /\ history' = touch(history, currentRoom[s])
          /\ UNCHANGED << rooms, inFlightStrokes, sockState, currentRoom,
                          currentUser, socketRooms, nextUuid >>

\* socket.on('undo')
Undo(s) ==
  /\ sockState[s] = "connected"
  /\ IF currentRoom[s] = NULL
     THEN Ignored(s)
     ELSE LET r      == currentRoom[s]
              rooms1 == getOrCreateRoom(rooms, r)
              h1     == historyAfterGet(history, rooms, r)
              ds     == rooms1[r].drawingState
              res    == undo(ds)
          IN  /\ rooms' = [rooms1 EXCEPT ![r].drawingState = res.ds]
              /\ IF res.result # <<>>
                 THEN /\ emitted' = Emit(NoEmit, ioTo(socketRooms, r),
                             [event |-> "undo", action |-> res.result[1].action,
                              commandId |-> res.result[1].commandId])
                      /\ history' = [h1 EXCEPT
                             ![r].flipped = TRUE,
                             ![r].undoneOrder = Append(@, res.pos),
                             ![r].runBase =
                                IF h1[r].undoRun = <<>>
                                THEN activePositions(ds.commandLog) ELSE @,
                             ![r].undoRun = Append(@, res.pos),
                             ![r].beforeUndo =
                                << idsOf(getActiveCommands(ds)) >>]
                 ELSE /\ emitted' = Emit(NoEmit, {s},
                             [event |-> "error", message |-> "Nothing to undo"])
                      /\ history' = touch(h1, r)
              /\ UNCHANGED << inFlightStrokes, sockState, currentRoom,
                              currentUser, socketRooms, nextUuid >>

\* socket.on('redo')
Redo(s) ==
  /\ sockState[s] = "connected"
  /\ IF currentRoom[s] = NULL
     THEN Ignored(s)
     ELSE LET r      == currentRoom[s]
              rooms1 == getOrCreateRoom(rooms, r)
              h1     == historyAfterGet(history, rooms, r)
              res    == redo(rooms1[r].drawingState)
          IN  /\ rooms' = [rooms1 EXCEPT ![r].drawingState = res.ds]
              /\ IF res.result # <<>>
                 THEN /\ emitted' = Emit(NoEmit, ioTo(socketRooms, r),
                             [event |-> "redo", action |-> res.result[1].action,
                              commandId |-> res.result[1].commandId])
                      /\ history' = touch([h1 EXCEPT
                             ![r].flipped = TRUE,
                             ![r].undoneOrder = Without(@, res.pos)], r)
                 ELSE /\ emitted' = Emit(NoEmit, {s},
                             [event |-> "error", message |-> "Nothing to redo"])
                      /\ history' = touch(h1, r)
              /\ UNCHANGED << inFlightStrokes, sockState, currentRoom,
                              currentUser, socketRooms, nextUuid >>

\* socket.on('disconnect'); socket.io has already taken the socket out of
\* every adapter room when the handler runs.  The handler leaves the closure
\* variables as they are; no handler of a closed socket runs again.
Disconnect(s) ==
  /\ sockState[s] = "connected"
  /\ sockState' = [sockState EXCEPT ![s] = "closed"]
  /\ socketRooms' = [socketRooms EXCEPT ![s] = {}]
  /\ IF currentRoom[s] = NULL
     THEN /\ emitted' = NoEmit
          /\ UNCHANGED << rooms, inFlightStrokes, currentRoom, currentUser,
                          nextUuid, history >>
     ELSE LET r       == currentRoom[s]
              rooms1  == getOrCreateRoom(rooms, r)
              h1      == historyAfterGet(history, rooms, r)
              removed == removedUserOf(rooms1[r], s)
              rooms2  == [rooms1 EXCEPT ![r] = removeUser(@, s)]
              ifs1    == getInFlightForRoom(inFlightStrokes, r)
              \* stroke.authorId === (removedUser && removedUser.id)
              kept    == { k \in DOMAIN ifs1[r] :
                             ~(removed # <<>> /\
                               ifs1[r][k].authorId = removed[1].id) }
              ifs2    == [ifs1 EXCEPT ![r] = [k \in kept |-> ifs1[r][k]]]
              empty   == isEmpty(rooms2[r])
          IN  /\ emitted' =
                   IF removed # <<>>
                   THEN Emit(NoEmit, socketTo(socketRooms', s, r),
                          [event |-> "user_left", userId |-> removed[1].id])
                   ELSE NoEmit
              /\ rooms' = IF empty THEN deleteRoom(rooms2, r) ELSE rooms2
              /\ inFlightStrokes' = IF empty THEN MapDelete(ifs2, r) ELSE ifs2
              /\ history' = IF empty THEN [h1 EXCEPT ![r] = NewHistory]
                            ELSE touch(h1, r)
              /\ UNCHANGED << currentRoom, currentUser, nextUuid >>

\* ------------------------------------------------------ bounded inputs
\* the strokes alive in the server: in flight or in a log, over all rooms
RECURSIVE SumOver(_, _)
SumOver(S, f) ==
  IF S = {} THEN 0
  ELSE LET x == CHOOSE y \in S : TRUE IN f[x] + SumOver(S \ {x}, f)

LiveStrokes ==
  SumOver(DOMAIN rooms,
          [r \in DOMAIN rooms |-> Len(rooms[r].drawingState.commandLog)])
  + SumOver(DOMAIN inFlightStrokes,
            [r \in DOMAIN inFlightStrokes |->
               Cardinality(DOMAIN inFlightStrokes[r])])

tracked(s, strokeId) ==
  /\ ~notJoined(s)
  /\ MapHas(inFlightStrokes, currentRoom[s])
  /\ MapHas(inFlightStrokes[currentRoom[s]], strokeId)

\* a valid join calls uuidv4()
JoinBound(roomId, userName) ==
  invalidRoomId(roomId) \/ userName.t = "number" \/ nextUuid <= MaxUuid

\* a draw_start that adds an entry needs room for one more stroke
StartBound(s, strokeId) ==
  notJoined(s) \/ tracked(s, strokeId) \/ LiveStrokes < MaxStrokes

ContinueBound(s, strokeId, points) ==
  tracked(s, strokeId) /\ points # <<>> =>
    Len(inFlightStrokes[currentRoom[s]][strokeId].points) + Len(points[1])
      <= MaxPoints

\* the server alone: the browsers are not looked at
Next ==
  \/ \E s \in Sockets : Connect(s) /\ UNCHANGED clientVars
  \/ \E s \in Sockets, roomId \in RoomIdInputs, userName \in UserNameInputs :
       JoinBound(roomId, userName) /\ JoinRoom(s, roomId, userName)
         /\ UNCHANGED clientVars
  \/ \E s \in Sockets, strokeId \in StrokeIds, points \in StartPoints,
        color \in Colors, width \in Widths, tool \in Tools :
       StartBound(s, strokeId)
         /\ DrawStart(s, strokeId, points, color, width, tool)
         /\ UNCHANGED clientVars
  \/ \E s \in Sockets, strokeId \in StrokeIds, points \in ContinuePoints :
       ContinueBound(s, strokeId, points) /\ DrawContinue(s, strokeId, points)
         /\ UNCHANGED clientVars
  \/ \E s \in Sockets, strokeId \in StrokeIds :
       DrawEnd(s, strokeId) /\ UNCHANGED clientVars
  \/ \E s \in Sockets, p \in CursorPoints :
       CursorMove(s, p) /\ UNCHANGED clientVars
  \/ \E s \in Sockets : Undo(s) /\ UNCHANGED clientVars
  \/ \E s \in Sockets : Redo(s) /\ UNCHANGED clientVars
  \/ \E s \in Sockets : Disconnect(s) /\ UNCHANGED clientVars

Spec == Init /\ [][Next]_vars

\* ------------------------------------------- one room, whole strokes
\* The command-log specification: every socket joins room "r1" once, and
\* the joined sockets draw one stroke at a time, undo and redo.  A
\* draw_start may also name the stroke that is in flight.
LogRoomId   == [t |-> "string", v |-> "r1"]
LogUserName == [t |-> "undefined", v |-> ""]

inFlightOf(r) ==
  IF MapHas(inFlightStrokes, r) THEN DOMAIN inFlightStrokes[r] ELSE {}

logOf(r) ==
  IF MapHas(rooms, r) THEN rooms[r].drawingState.commandLog ELSE <<>>

StartLogBound(s, strokeId) ==
  /\ ~notJoined(s)
  /\ \/ tracked(s, strokeId)
     \/ /\ inFlightOf(currentRoom[s]) = {}
        /\ Len(logOf(currentRoom[s])) < MaxLogLen

NextLog ==
  \/ \E s \in Sockets : Connect(s) /\ UNCHANGED clientVars
  \/ \E s \in Sockets :
       currentRoom[s] = NULL /\ JoinRoom(s, LogRoomId, LogUserName)
         /\ UNCHANGED clientVars
  \/ \E s \in Sockets, strokeId \in StrokeIds,
        color \in Colors, width \in Widths, tool \in Tools :
       StartLogBound(s, strokeId)
         /\ DrawStart(s, strokeId, << <<P0>> >>, color, width, tool)
         /\ UNCHANGED clientVars
  \/ \E s \in Sockets, strokeId \in StrokeIds :
       ~notJoined(s) /\ DrawEnd(s, strokeId) /\ UNCHANGED clientVars
  \/ \E s \in Sockets : ~notJoined(s) /\ Undo(s) /\ UNCHANGED clientVars
  \/ \E s \in Sockets : ~notJoined(s) /\ Redo(s) /\ UNCHANGED clientVars
  \/ \E s \in Sockets : Disconnect(s) /\ UNCHANGED clientVars

SpecLog == Init /\ [][NextLog]_vars

\* ------------------------------------------- one room, many joins
\* The palette specification: the sockets join room "r1" again and again
\* and leave; nothing is drawn.
NextPalette ==
  \/ \E s \in Sockets : Connect(s) /\ UNCHANGED clientVars
  \/ \E s \in Sockets :
       nextUuid <= MaxJoins /\ JoinRoom(s, LogRoomId, LogUserName)
         /\ UNCHANGED clientVars
  \/ \E s \in Sockets : Disconnect(s) /\ UNCHANGED clientVars

SpecPalette == Init /\ [][NextPalette]_vars

\* ------------------------------------------- one room, growing strokes
\* The command-log specification with draw_continue: the stroke in flight
\* grows before it is committed, and a draw_start or draw_continue may name
\* the id of a committed command.
NextStroke ==
  \/ \E s \in Sockets : Connect(s) /\ UNCHANGED clientVars
  \/ \E s \in Sockets :
       currentRoom[s] = NULL /\ JoinRoom(s, LogRoomId, LogUserName)
         /\ UNCHANGED clientVars
  \/ \E s \in Sockets, strokeId \in StrokeIds,
        color \in Colors, width \in Widths, tool \in Tools :
       StartLogBound(s, strokeId)
         /\ DrawStart(s, strokeId, << <<P0>> >>, color, width, tool)
         /\ UNCHANGED clientVars
  \/ \E s \in Sockets, strokeId \in StrokeIds, points \in ContinuePoints :
       ~notJoined(s) /\ ContinueBound(s, strokeId, points)
         /\ DrawContinue(s, strokeId, points) /\ UNCHANGED clientVars
  \/ \E s \in Sockets, strokeId \in StrokeIds :
       ~notJoined(s) /\ DrawEnd(s, strokeId) /\ UNCHANGED clientVars
  \/ \E s \in Sockets : ~notJoined(s) /\ Undo(s) /\ UNCHANGED clientVars
  \/ \E s \in Sockets : ~notJoined(s) /\ Redo(s) /\ UNCHANGED clientVars
  \/ \E s \in Sockets : Disconnect(s) /\ UNCHANGED clientVars

SpecStroke == Init /\ [][NextStroke]_vars

\* --------------------------------------------- the server and its browsers
\* main.js: the handlers socketClient.on(...) registers, run on the message
\* at the head of the socket's downlink
Deliver(s) ==
  /\ sockState[s] = "connected"
  /\ inbox[s] # <<>>
  /\ LET m == Head(inbox[s])
         c == client[s]
     IN  /\ inbox' = [inbox EXCEPT ![s] = Tail(@)]
         /\ client' = [client EXCEPT ![s] =
              CASE m.event = "room_state" ->
                     updateUserList([c EXCEPT !.myUser = << m.myUser >>],
                                    m.users)
                [] m.event = "user_joined" -> addUserToList(c, m.user)
                [] m.event = "user_left" -> removeUserFromList(c, m.userId)
                [] m.event = "draw_start" ->
                     handleRemoteDrawStart(c, m.strokeId, m.points, m.color,
                                           m.width, m.tool)
                [] m.event = "draw_continue" ->
                     handleRemoteDrawContinue(c, m.strokeId, m.points)
                [] m.event = "draw_end" -> canvasAddCommand(c, m.fullCommand)
                [] m.event = "undo" -> handleUndo(c, m.commandId)
                [] m.event = "redo" -> handleRedo(c, m.commandId)
                [] OTHER -> c]
         \* requestAnimationFrame(() => canvas.setCommandLog(data.commandLog));
         \* the two room_state handlers queue the same call twice, for the
         \* same frame
         /\ frames' = IF m.event = "room_state"
                      THEN [frames EXCEPT ![s] = Append(@, m.commandLog)]
                      ELSE frames
  /\ UNCHANGED serverVars

\* the browser of socket s runs its next animation frame callback
Frame(s) ==
  /\ sockState[s] = "connected"
  /\ frames[s] # <<>>
  /\ client' = [client EXCEPT ![s] = setCommandLog(@, Head(frames[s]))]
  /\ frames' = [frames EXCEPT ![s] = Tail(@)]
  /\ UNCHANGED << inbox, serverVars >>

\* a transport that hands the newest message over first
sentInFront ==
  inbox' = [k \in Sockets |->
              IF sockState'[k] = "connected" THEN emitted'[k] \o inbox[k]
              ELSE <<>>]

\* what the server emitted in this step is on its way to the browsers
sent ==
  inbox' = [k \in Sockets |->
              IF sockState'[k] = "connected" THEN inbox[k] \o emitted'[k]
              ELSE <<>>]

\* the stroke ids some log, in-flight table or browser knows
usedIds ==
  UNION { { rooms[r].drawingState.commandLog[i].id :
              i \in 1..Len(rooms[r].drawingState.commandLog) } :
          r \in DOMAIN rooms }
    \cup UNION { DOMAIN inFlightStrokes[r] : r \in DOMAIN inFlightStrokes }
    \cup UNION { DOMAIN client[k].activeStrokes : k \in Sockets }
    \cup UNION { { client[k].commandLog[i].id :
                    i \in 1..Len(client[k].commandLog) } : k \in Sockets }

\* joinBtn click on the room screen, the first one of a connection
ClientJoin(s) ==
  /\ client[s].myUser = <<>>
  /\ currentRoom[s] = NULL
  /\ JoinRoom(s, LogRoomId, LogUserName)
  /\ sent
  /\ UNCHANGED << client, frames >>

\* onPointerDown: a new stroke id, startLocalStroke, socketClient.drawStart
PointerDown(s, strokeId, color, width, tool) ==
  /\ client[s].myUser # <<>>
  /\ client[s].currentStrokeId = NULL
  /\ strokeId \notin usedIds
  /\ DrawStart(s, strokeId, << <<P0>> >>, color, width, tool)
  /\ sent
  /\ client' = [client EXCEPT ![s] =
                  startLocalStroke(@, strokeId, P0, color, width, tool)]
  /\ UNCHANGED frames

\* onPointerUp: socketClient.drawEnd, currentStrokeId = null
PointerUp(s) ==
  /\ client[s].currentStrokeId # NULL
  /\ DrawEnd(s, client[s].currentStrokeId)
  /\ sent
  /\ client' = [client EXCEPT ![s].currentStrokeId = NULL]
  /\ UNCHANGED frames

\* undoBtn / Ctrl+Z
ClientUndo(s) ==
  /\ currentRoom[s] # NULL
  /\ Undo(s)
  /\ sent
  /\ UNCHANGED << client, frames >>

\* redoBtn / Ctrl+Shift+Z
ClientRedo(s) ==
  /\ currentRoom[s] # NULL
  /\ Redo(s)
  /\ sent
  /\ UNCHANGED << client, frames >>

\* the tab is closed: the page and what was on its way to it are gone
ClientClose(s) ==
  /\ Disconnect(s)
  /\ sent
  /\ client' = [client EXCEPT ![s] = NewClient]
  /\ frames' = [frames EXCEPT ![s] = <<>>]

InboxBound == \A k \in Sockets : Len(inbox'[k]) <= MaxInbox

NextClient ==
  \/ \E s \in Sockets : Connect(s) /\ UNCHANGED clientVars
  \/ \E s \in Sockets : ClientJoin(s) /\ InboxBound
  \/ \E s \in Sockets, strokeId \in StrokeIds, color \in Colors,
        width \in Widths, tool \in Tools :
       PointerDown(s, strokeId, color, width, tool) /\ InboxBound
  \/ \E s \in Sockets : PointerUp(s) /\ InboxBound
  \/ \E s \in Sockets : ClientUndo(s) /\ InboxBound
  \/ \E s \in Sockets : ClientRedo(s) /\ InboxBound
  \/ \E s \in Sockets : ClientClose(s)
  \/ \E s \in Sockets : Deliver(s)
  \/ \E s \in Sockets : Frame(s)

SpecClient == Init /\ [][NextClient]_vars

\* The browsers that only join, draw and close. The event loop of a browser
\* runs the handler of every message the socket has received, so the
\* handling of the head of a non-empty inbox is weakly fair.
NextCommit ==
  \/ \E s \in Sockets : Connect(s) /\ UNCHANGED clientVars
  \/ \E s \in Sockets : ClientJoin(s) /\ InboxBound
  \/ \E s \in Sockets, strokeId \in StrokeIds, color \in Colors,
        width \in Widths, tool \in Tools :
       PointerDown(s, strokeId, color, width, tool) /\ InboxBound
  \/ \E s \in Sockets : PointerUp(s) /\ InboxBound
  \/ \E s \in Sockets : ClientClose(s)
  \/ \E s \in Sockets : Deliver(s)
  \/ \E s \in Sockets : Frame(s)

SpecCommit ==
  Init /\ [][NextCommit]_vars /\ \A s \in Sockets : WF_vars(Deliver(s))

\* ------------------------------------------- connections that drop
\* the connection of the page of socket s drops: the server runs its
\* disconnect handler, the page stays as it is (on('disconnected') only
\* changes the status display)
Drop(s) ==
  /\ Disconnect(s)
  /\ sent
  /\ client[s] # NewClient
  /\ UNCHANGED << client, frames >>

\* socket.io reconnects the page whose connection s dropped: the server sees
\* a new connection t (io.on('connection'), currentRoom = currentUser =
\* null), the page keeps its state (on('connected') only changes the status
\* display and sends nothing)
Reconnect(s, t) ==
  /\ sockState[s] = "closed"
  /\ client[s] # NewClient
  /\ Connect(t)
  /\ client' = [client EXCEPT ![t] = client[s], ![s] = NewClient]
  /\ frames' = [frames EXCEPT ![t] = frames[s], ![s] = <<>>]
  /\ UNCHANGED inbox

NextReconnect ==
  \/ \E s \in Sockets : Connect(s) /\ UNCHANGED clientVars
  \/ \E s \in Sockets : ClientJoin(s) /\ InboxBound
  \/ \E s \in Sockets, strokeId \in StrokeIds, color \in Colors,
        width \in Widths, tool \in Tools :
       PointerDown(s, strokeId, color, width, tool) /\ InboxBound
  \/ \E s \in Sockets : PointerUp(s) /\ InboxBound
  \/ \E s \in Sockets : Drop(s)
  \/ \E s, t \in Sockets : Reconnect(s, t)
  \/ \E s \in Sockets : ClientClose(s)
  \/ \E s \in Sockets : Deliver(s)
  \/ \E s \in Sockets : Frame(s)

\* the event loop of the page handles every received message and runs every
\* frame callback; socket.io keeps trying to reconnect
SpecReconnect ==
  /\ Init /\ [][NextReconnect]_vars
  /\ \A s \in Sockets : WF_vars(Deliver(s)) /\ WF_vars(Frame(s))
  /\ \A s, t \in Sockets : WF_vars(Reconnect(s, t))

\* =================================================================
\* Properties
\* =================================================================
joined(s) == sockState[s] = "connected" /\ currentRoom[s] # NULL

\* the connections now joined to room r
connsIn(r) == { k \in Sockets : joined(k) /\ currentRoom[k] = r }

MaxOf(S) == CHOOSE m \in S : \A x \in S : x <= m

\* the k-th least element of the set of numbers S
KthOf(S, k) == CHOOSE p \in S : Cardinality({ q \in S : q < p }) = k - 1

\* a log entry without its undone flag
commandOf(e) ==
  [id |-> e.id, authorId |-> e.authorId, authorName |-> e.authorName,
   authorColor |-> e.authorColor, points |-> e.points, color |-> e.color,
   width |-> e.width, tool |-> e.tool]

logAfter(r) == rooms'[r].drawingState.commandLog

\* log with the flag of position p set to b and nothing else changed
flagSet(log, p, b) ==
  [i \in 1..Len(log) |->
     [id |-> log[i].id, authorId |-> log[i].authorId,
      authorName |-> log[i].authorName, authorColor |-> log[i].authorColor,
      points |-> log[i].points, color |-> log[i].color,
      width |-> log[i].width, tool |-> log[i].tool,
      undone |-> IF i = p THEN b ELSE log[i].undone]]

\* what every socket holds after one message m went to the sockets in T
onlyTo(T, m) == [k \in Sockets |-> IF k \in T THEN << m >> ELSE <<>>]

\* C1: redo is last-undone-first: a redo re-activates the entry flipped by
\* the most recent undo that has not been redone yet (after commits S1, S2
\* and two undos, the first redo gives [S1], the second [S1, S2]).
RedoIsLastUndoneFirst ==
  [][\A s \in Sockets :
       (joined(s) /\ Redo(s)) =>
         LET r     == currentRoom[s]
             order == history[r].undoneOrder
         IN  order # <<>> =>
               logAfter(r) = flagSet(logOf(r), order[Len(order)], FALSE)]_vars

\* C2: an undo and then at once a redo, no other event of the room in
\* between, leaves the ids of the active commands as they were before the
\* undo.
UndoThenRedoRestoresActive ==
  [][\A s \in Sockets :
       (joined(s) /\ Redo(s)) =>
         LET r == currentRoom[s]
         IN  history[r].beforeUndo # <<>> =>
               idsOf(getActiveCommands(rooms'[r].drawingState))
                 = history[r].beforeUndo[1]]_vars

\* C3: with an active entry in the log, undo sets undone on the active
\* entry at the greatest position and on no other entry, whoever is its
\* author and whoever asks, and reports that entry's id.
UndoFlipsLastActive ==
  [][\A s \in Sockets :
       (joined(s) /\ Undo(s)) =>
         LET r   == currentRoom[s]
             log == logOf(r)
             A   == activePositions(log)
         IN  A # {} =>
               /\ logAfter(r) = flagSet(log, MaxOf(A), TRUE)
               /\ Len(emitted'[s]) = 1
               /\ emitted'[s][1].event = "undo"
               /\ emitted'[s][1].commandId = log[MaxOf(A)].id]_vars

\* C3 happened: an undo was just reported to the only connection of a room,
\* the entry it flipped was written by someone else, and the log has other
\* entries
UndoByOtherSeen ==
  \E r \in DOMAIN rooms : \E k \in Sockets :
    LET log == logOf(r)
        run == history[r].undoRun
    IN  /\ connsIn(r) = {k}
        /\ Len(emitted[k]) = 1
        /\ emitted[k][1].event = "undo"
        /\ run # <<>>
        /\ log[run[Len(run)]].authorId # currentUser[k].id
        /\ \E i \in 1..Len(log) : i < run[Len(run)] /\ ~log[i].undone

UndoRunTakesTopDown ==
  \A r \in DOMAIN rooms :
    LET run  == history[r].undoRun
        base == history[r].runBase
        N    == Len(run)
        done == { run[i] : i \in 1..N }
        log  == logOf(r)
    IN  N > 0 =>
          /\ N <= Cardinality(base)
          /\ \A i \in 1..(N - 1) : run[i] > run[i + 1]
          /\ done = { p \in base : Cardinality({ q \in base : q > p }) < N }
          /\ activePositions(log) = base \ done
          /\ undonePositions(log) \cap base = done

\* C5 happened: two undos in a row took entries of two authors
UndoRunSeen ==
  \E r \in DOMAIN rooms :
    LET run == history[r].undoRun
        log == logOf(r)
    IN  /\ Len(run) >= 2
        /\ log[run[1]].authorId # log[run[2]].authorId

\* C6: the active commands are the log's entries with undone = false in
\* log order, the log holds the appended commands in append order, and
\* while no undo or redo has run the active commands are all of them.
ActiveIsAppendedInOrder ==
  \A r \in DOMAIN rooms :
    LET ds  == rooms[r].drawingState
        log == ds.commandLog
        app == history[r].appended
        act == getActiveCommands(ds)
        A   == activePositions(log)
    IN  /\ Len(log) = Len(app)
        /\ \A i \in 1..Len(log) : commandOf(log[i]) = app[i]
        /\ Len(act) = Cardinality(A)
        /\ \A k \in 1..Len(act) : act[k] = log[KthOf(A, k)]
        /\ ~history[r].flipped =>
             /\ Len(act) = Len(app)
             /\ \A i \in 1..Len(act) :
                  commandOf(act[i]) = app[i] /\ ~act[i].undone

\* C6 happened: two commands of two authors were appended and nothing was
\* undone
AppendsOnlySeen ==
  \E r \in DOMAIN rooms :
    LET app == history[r].appended
    IN  /\ ~history[r].flipped
        /\ Len(app) >= 2
        /\ app[1].authorId # app[2].authorId
        /\ Len(getActiveCommands(rooms[r].drawingState)) = Len(app)

\* C7: undo on a log with no active entry, and redo on a log with no undone
\* entry, return none and leave the log as it was.
NothingToFlipIsNone ==
  [][\A s \in Sockets :
       joined(s) =>
         LET r  == currentRoom[s]
             ds == rooms[r].drawingState
         IN  /\ (Undo(s) /\ activePositions(ds.commandLog) = {}) =>
                  /\ undo(ds).result = <<>>
                  /\ rooms'[r].drawingState = ds
                  /\ emitted'[s] =
                       << [event |-> "error", message |-> "Nothing to undo"] >>
             /\ (Redo(s) /\ undonePositions(ds.commandLog) = {}) =>
                  /\ redo(ds).result = <<>>
                  /\ rooms'[r].drawingState = ds
                  /\ emitted'[s] =
                       << [event |-> "error", message |-> "Nothing to redo"] >>]_vars

\* C7 happened: an undo found every entry of a non-empty log undone
NothingToUndoSeen ==
  \E r \in DOMAIN rooms : \E k \in connsIn(r) :
    /\ logOf(r) # <<>>
    /\ activePositions(logOf(r)) = {}
    /\ emitted[k] = << [event |-> "error", message |-> "Nothing to undo"] >>

\* what C8 asks of an undo or redo of socket s: flips is the set of
\* positions it can flip, name the event
notifiesRoom(s, flips, name, nothing) ==
  LET r == currentRoom[s]
  IN  IF flips # {}
      THEN \E i \in flips :
             /\ logAfter(r)[i].undone # logOf(r)[i].undone
             /\ \A k \in Sockets :
                  IF k \in connsIn(r)
                  THEN /\ Len(emitted'[k]) = 1
                       /\ emitted'[k][1].event = name
                       /\ emitted'[k][1].commandId = logOf(r)[i].id
                  ELSE emitted'[k] = <<>>
      ELSE /\ emitted' = onlyTo({s}, [event |-> "error", message |-> nothing])
           /\ UNCHANGED << rooms, inFlightStrokes, sockState, currentRoom,
                           currentUser, socketRooms, nextUuid >>

\* C8: a successful undo or redo of a joined connection sends one
\* {commandId} to every connection of its room, the requester included, and
\* to nobody else; with nothing to undo or redo the requester alone gets an
\* error and the server state does not change.
UndoRedoNotifiesRoom ==
  [][\A s \in Sockets :
       joined(s) =>
         /\ Undo(s) => notifiesRoom(s, activePositions(logOf(currentRoom[s])),
                                    "undo", "Nothing to undo")
         /\ Redo(s) => notifiesRoom(s, undonePositions(logOf(currentRoom[s])),
                                    "redo", "Nothing to redo")]_vars

\* C8 happened: an undo was reported to one connection while another
\* connection, joined to another room, got nothing
UndoNotifiedSeen ==
  \E k, m \in Sockets :
    /\ joined(k) /\ joined(m)
    /\ currentRoom[k] # currentRoom[m]
    /\ Len(emitted[k]) = 1
    /\ emitted[k][1].event = "undo"
    /\ emitted[m] = <<>>

\* C9: a room's log never holds two entries with one id: a draw_end whose
\* strokeId is the id of an entry of the log leaves the log as it was and
\* reports the failure to the requester.
DuplicateCommandRejected ==
  [][\A s \in Sockets : \A strokeId \in StrokeIds :
       (joined(s) /\ tracked(s, strokeId) /\ DrawEnd(s, strokeId)
          /\ \E i \in 1..Len(logOf(currentRoom[s])) :
               logOf(currentRoom[s])[i].id = strokeId) =>
         /\ logAfter(currentRoom[s]) = logOf(currentRoom[s])
         /\ \E i \in 1..Len(emitted'[s]) : emitted'[s][i].event = "error"]_vars

\* C10: a draw_start whose strokeId is tracked in the room's in-flight table
\* fails: the tracked entry stays as it is.
DuplicateStrokeRejected ==
  [][\A s \in Sockets : \A strokeId \in StrokeIds :
       (joined(s) /\ tracked(s, strokeId)
          /\ \E points \in StartPoints, color \in Colors, width \in Widths,
                tool \in Tools :
               DrawStart(s, strokeId, points, color, width, tool)) =>
         inFlightStrokes'[currentRoom[s]][strokeId]
           = inFlightStrokes[currentRoom[s]][strokeId]]_vars

\* the points of the in-flight stroke strokeId of room r
pointsOf(ifs, r, strokeId) == ifs[r][strokeId].points

\* an in-flight stroke of room r is written by a draw_start or a
\* draw_continue of a connection of r that names it
writesStroke(r, strokeId) ==
  \E s \in Sockets :
    /\ currentRoom[s] = r
    /\ \/ \E points \in StartPoints, color \in Colors, width \in Widths,
              tool \in Tools :
            DrawStart(s, strokeId, points, color, width, tool)
       \/ \E points \in ContinuePoints : DrawContinue(s, strokeId, points)

\* C11: the points of a committed stroke are the points of its draw_start
\* followed by the batches of its draw_continue events in the order the
\* server processed them: draw_start stores its points, every draw_continue
\* appends its batch at the end, no other event changes the points of a
\* tracked stroke, and draw_end commits the accumulated points as the last
\* entry of the log and removes the in-flight entry.
StrokePointsAreConcatenated ==
  [][/\ \A s \in Sockets : \A strokeId \in StrokeIds :
          ~notJoined(s) =>
            LET r == currentRoom[s]
            IN  /\ \A points \in StartPoints, color \in Colors,
                      width \in Widths, tool \in Tools :
                     DrawStart(s, strokeId, points, color, width, tool) =>
                       pointsOf(inFlightStrokes', r, strokeId)
                         = IF points = <<>> THEN <<>> ELSE points[1]
                /\ \A points \in ContinuePoints :
                     (tracked(s, strokeId) /\ points # <<>>
                        /\ DrawContinue(s, strokeId, points)) =>
                       pointsOf(inFlightStrokes', r, strokeId)
                         = pointsOf(inFlightStrokes, r, strokeId) \o points[1]
                /\ (tracked(s, strokeId) /\ DrawEnd(s, strokeId)) =>
                     LET after == logAfter(r)
                         last  == after[Len(after)]
                     IN  /\ Len(after) = Len(logOf(r)) + 1
                         /\ \A i \in 1..Len(logOf(r)) : after[i] = logOf(r)[i]
                         /\ last.id = strokeId
                         /\ last.points = pointsOf(inFlightStrokes, r, strokeId)
                         /\ ~MapHas(inFlightStrokes'[r], strokeId)
                         /\ Len(emitted'[s]) = 1
                         /\ emitted'[s][1].event = "draw_end"
                         /\ emitted'[s][1].fullCommand.points
                              = pointsOf(inFlightStrokes, r, strokeId)
     /\ \A r \in DOMAIN inFlightStrokes : \A strokeId \in DOMAIN inFlightStrokes[r] :
          (/\ MapHas(inFlightStrokes', r)
           /\ MapHas(inFlightStrokes'[r], strokeId)
           /\ pointsOf(inFlightStrokes', r, strokeId)
                # pointsOf(inFlightStrokes, r, strokeId)) =>
            writesStroke(r, strokeId)]_vars

\* C11 happened: a stroke begun with P0 and extended with P1 was just
\* committed and is no longer in flight
CommitOfExtendedSeen ==
  \E r \in DOMAIN rooms : \E k \in connsIn(r) :
    LET log == logOf(r)
    IN  /\ log # <<>>
        /\ log[Len(log)].points = << P0, P1 >>
        /\ Len(emitted[k]) = 1
        /\ emitted[k][1].event = "draw_end"
        /\ emitted[k][1].fullCommand = log[Len(log)]
        /\ ~MapHas(inFlightStrokes[r], log[Len(log)].id)

\* the stroke entries of room r in the tables ifs (none when r has no table)
entriesOf(ifs, r) == IF MapHas(ifs, r) THEN ifs[r] ELSE EmptyMap

\* C12: a draw_continue or draw_end of a joined connection that names a
\* strokeId not tracked in its room is dropped: the stroke entries of every
\* room are what they were (the room's table is at most created empty),
\* the registry with every command log is unchanged, and no connection
\* receives anything.
UnknownStrokeIsDropped ==
  [][\A s \in Sockets : \A strokeId \in StrokeIds :
       (/\ ~notJoined(s)
        /\ ~tracked(s, strokeId)
        /\ \/ \E points \in ContinuePoints : DrawContinue(s, strokeId, points)
           \/ DrawEnd(s, strokeId)) =>
         /\ \A r \in RoomIds :
              entriesOf(inFlightStrokes', r) = entriesOf(inFlightStrokes, r)
         /\ rooms' = rooms
         /\ emitted' = NoEmit]_vars

\* C12 happened: the only connection ever opened joined once, its room has
\* an in-flight table with no entry and an empty log (no draw_start ran:
\* its entry would be in the table or in the log), and nothing was emitted
UnknownStrokeDropSeen ==
  \E k \in Sockets :
    /\ joined(k)
    /\ \A m \in Sockets \ {k} : sockState[m] = "pending"
    /\ nextUuid = 2
    /\ MapHas(inFlightStrokes, currentRoom[k])
    /\ inFlightStrokes[currentRoom[k]] = EmptyMap
    /\ logOf(currentRoom[k]) = <<>>
    /\ emitted = NoEmit

\* the user ids under which socket s is registered: the id of its closure's
\* currentUser and the ids of the user records kept for it in the rooms
\* (a lower bound of the ids it ever held: a record is overwritten when
\* the socket joins the same room again)
registeredIds(s) ==
  (IF MapHas(currentUser, s) THEN {currentUser[s].id} ELSE {})
    \cup { rooms[r].users[s].id :
             r \in { q \in DOMAIN rooms : MapHas(rooms[q].users, s) } }

\* C13: after the disconnect of a joined connection no in-flight table of
\* any room holds a stroke begun under a user id of that connection, and
\* the command log of every room that is still in the registry is what it
\* was.
DisconnectDropsOwnStrokes ==
  [][\A s \in Sockets :
       (joined(s) /\ Disconnect(s)) =>
         /\ \A r \in DOMAIN inFlightStrokes' :
              \A strokeId \in DOMAIN inFlightStrokes'[r] :
                inFlightStrokes'[r][strokeId].authorId \notin registeredIds(s)
         /\ \A r \in DOMAIN rooms' : logAfter(r) = logOf(r)]_vars

\* C14: after every event a room is in the registry if and only if its user
\* set is not empty: every room of the registry has a user, in-flight
\* tables exist for rooms of the registry only, the event that removes the
\* last user of a room removes the room and its in-flight table in the same
\* step, and a room leaves the registry in no other step.
RoomPresentIffHasUsers ==
  [][/\ \A r \in DOMAIN rooms' : ~isEmpty(rooms'[r])
     /\ DOMAIN inFlightStrokes' \subseteq DOMAIN rooms'
     /\ \A s \in Sockets :
          (/\ joined(s)
           /\ Disconnect(s)
           /\ DOMAIN rooms[currentRoom[s]].users = {s}) =>
            /\ ~MapHas(rooms', currentRoom[s])
            /\ ~MapHas(inFlightStrokes', currentRoom[s])
     /\ \A r \in (DOMAIN rooms) \ (DOMAIN rooms') :
          \E s \in Sockets :
            /\ Disconnect(s)
            /\ currentRoom[s] = r
            /\ DOMAIN rooms[r].users = {s}]_vars

\* C14 happened: the room of a closed connection is gone with its in-flight
\* table while another room, with a table of its own, is still there
RoomDeletedSeen ==
  \E s \in Sockets : \E q \in DOMAIN rooms :
    /\ sockState[s] = "closed"
    /\ currentRoom[s] # NULL
    /\ ~MapHas(rooms, currentRoom[s])
    /\ ~MapHas(inFlightStrokes, currentRoom[s])
    /\ MapHas(inFlightStrokes, q)
    /\ inFlightStrokes[q] # EmptyMap

\* the rooms whose user set holds an entry for socket s
registeredIn(s) == { r \in DOMAIN rooms : MapHas(rooms[r].users, s) }

\* C15: a connection is registered in the user set of at most one room, the
\* room it joined last.
RegisteredInLastJoinedOnly ==
  \A s \in Sockets : registeredIn(s) \subseteq {currentRoom[s]}

\* the valid join_room events of socket s that name a room other than the
\* one it is joined to
switchesRoom(s, rid) ==
  /\ joined(s)
  /\ rid # currentRoom[s]
  /\ \E userName \in UserNameInputs :
       /\ userName.t # "number"
       /\ JoinRoom(s, [t |-> "string", v |-> rid], userName)

\* C16: a joined connection that joins another room leaves its prior room
\* first: it is no longer in the prior room's user set, none of the strokes
\* it began is in the prior room's in-flight table, every connection that
\* remains in the prior room receives a user_left for it, and the prior
\* room is deleted when no user is left in it.
JoinLeavesPriorRoom ==
  [][\A s \in Sockets : \A rid \in RoomIds :
       switchesRoom(s, rid) =>
         LET prior == currentRoom[s]
             uid   == currentUser[s].id
         IN  /\ MapHas(rooms', prior) => ~MapHas(rooms'[prior].users, s)
             /\ \A strokeId \in DOMAIN entriesOf(inFlightStrokes', prior) :
                  inFlightStrokes'[prior][strokeId].authorId # uid
             /\ \A k \in connsIn(prior) \ {s} :
                  \E i \in 1..Len(emitted'[k]) :
                    /\ emitted'[k][i].event = "user_left"
                    /\ emitted'[k][i].userId = uid
             /\ DOMAIN rooms[prior].users = {s} => ~MapHas(rooms', prior)]_vars

\* C17: every room of the registry has a connected connection joined to it,
\* and every in-flight table belongs to such a room; so with every
\* connection gone the registry and the in-flight tables are empty.
NoStaleRooms ==
  /\ \A r \in DOMAIN rooms : connsIn(r) # {}
  /\ \A r \in DOMAIN inFlightStrokes : connsIn(r) # {}

\* the user as getUserList and user_joined show it
publicUser(u) == [id |-> u.id, name |-> u.name, color |-> u.color]

\* C18: a join of a roomId whose room is not in the registry or has no user
\* left (its last user left) gets a fresh room: the room_state snapshot
\* has commandLog = [] and the joiner as its only user, the room's log and
\* in-flight table are empty, and the joiner has the first palette colour
\* (colour cursor 0, 1 after the join).
JoinAfterDeleteIsFresh ==
  [][\A s \in Sockets : \A rid \in RoomIds : \A userName \in UserNameInputs :
       (/\ userName.t # "number"
        /\ MapHas(rooms, rid) => isEmpty(rooms[rid])
        /\ JoinRoom(s, [t |-> "string", v |-> rid], userName)) =>
         /\ Len(emitted'[s]) = 1
         /\ emitted'[s][1].event = "room_state"
         /\ emitted'[s][1].commandLog = <<>>
         /\ emitted'[s][1].users = { publicUser(emitted'[s][1].myUser) }
         /\ emitted'[s][1].myUser.color = USER_COLORS[1]
         /\ logAfter(rid) = <<>>
         /\ entriesOf(inFlightStrokes', rid) = EmptyMap
         /\ DOMAIN rooms'[rid].users = {s}
         /\ rooms'[rid].colorIndex = 1]_vars

\* C18 happened: a connection has just joined, alone, the room that a
\* connection now closed had joined before it
JoinAfterDeleteSeen ==
  \E k, m \in Sockets :
    /\ sockState[k] = "closed"
    /\ joined(m)
    /\ currentRoom[k] = currentRoom[m]
    /\ currentUser[k].id < currentUser[m].id
    /\ Len(emitted[m]) = 1
    /\ emitted[m][1].event = "room_state"
    /\ emitted[m][1].commandLog = <<>>
    /\ DOMAIN rooms[currentRoom[m]].users = {m}

\* the step is the processing of an event of socket s
eventOf(s) ==
  \/ Connect(s)
  \/ \E roomId \in RoomIdInputs, userName \in UserNameInputs :
       JoinRoom(s, roomId, userName)
  \/ \E strokeId \in StrokeIds, points \in StartPoints, color \in Colors,
        width \in Widths, tool \in Tools :
       DrawStart(s, strokeId, points, color, width, tool)
  \/ \E strokeId \in StrokeIds, points \in ContinuePoints :
       DrawContinue(s, strokeId, points)
  \/ \E strokeId \in StrokeIds : DrawEnd(s, strokeId)
  \/ \E p \in CursorPoints : CursorMove(s, p)
  \/ Undo(s)
  \/ Redo(s)
  \/ Disconnect(s)

\* the step leaves every room outside R as it was (presence, log, user set,
\* colour cursor, in-flight table) and sends nothing to the connections
\* joined to a room outside R
isolatedFrom(R) ==
  /\ \A q \in RoomIds \ R :
       /\ MapHas(rooms', q) = MapHas(rooms, q)
       /\ MapHas(rooms, q) => rooms'[q] = rooms[q]
       /\ MapHas(inFlightStrokes', q) = MapHas(inFlightStrokes, q)
       /\ entriesOf(inFlightStrokes', q) = entriesOf(inFlightStrokes, q)
  /\ \A k \in Sockets :
       (joined(k) /\ currentRoom[k] \notin R) => emitted'[k] = <<>>

\* C19 as stated: an event of a connection joined to room r leaves every
\* room other than r unchanged and sends nothing to a connection joined to
\* another room.
EventTouchesSendersRoomOnly ==
  [][\A s \in Sockets :
       (joined(s) /\ eventOf(s)) => isolatedFrom({currentRoom[s]})]_vars

\* C19 amended: an event of a connection leaves unchanged every room other
\* than the room the connection is joined to and, for a join_room, the room
\* it joins, and sends nothing to a connection joined to any other room.
RoomIsolation ==
  [][\A s \in Sockets :
       eventOf(s) => isolatedFrom({currentRoom[s], currentRoom'[s]})]_vars

\* C19 happened: a stroke was just committed in one room while a connection
\* joined to another room, whose log is empty, received nothing
IsolatedCommitSeen ==
  \E k, m \in Sockets :
    /\ joined(k) /\ joined(m)
    /\ currentRoom[k] # currentRoom[m]
    /\ Len(emitted[k]) = 1
    /\ emitted[k][1].event = "draw_end"
    /\ logOf(currentRoom[k]) # <<>>
    /\ emitted[m] = <<>>
    /\ logOf(currentRoom[m]) = <<>>
    /\ entriesOf(inFlightStrokes, currentRoom[m]) = EmptyMap

\* C20: a successful join_room(roomId, name) registers the connection in
\* room roomId, created when absent and otherwise kept with its log and its
\* other users; the joiner alone receives room_state (the room's users, its
\* log, its own user), every other connection joined to the room receives
\* one user_joined for the joiner, and nobody else receives anything.
JoinNotifiesRoom ==
  [][\A s \in Sockets : \A rid \in RoomIds : \A userName \in UserNameInputs :
       (/\ userName.t # "number"
        /\ JoinRoom(s, [t |-> "string", v |-> rid], userName)) =>
         /\ MapHas(rooms', rid)
         /\ MapHas(rooms'[rid].users, s)
         /\ currentRoom'[s] = rid
         /\ rooms'[rid].users[s] = currentUser'[s]
         /\ rooms'[rid].users[s].name = safeNameOf(userName)
         /\ MapHas(rooms, rid) =>
              /\ logAfter(rid) = logOf(rid)
              /\ \A k \in DOMAIN rooms[rid].users \ {s} :
                   /\ MapHas(rooms'[rid].users, k)
                   /\ rooms'[rid].users[k] = rooms[rid].users[k]
         /\ emitted'[s] =
              << [event      |-> "room_state",
                  users      |-> getUserList(rooms'[rid]),
                  commandLog |-> logAfter(rid),
                  myUser     |-> rooms'[rid].users[s]] >>
         /\ \A k \in Sockets \ {s} :
              emitted'[k] =
                IF k \in connsIn(rid)
                THEN << [event |-> "user_joined",
                         user  |-> publicUser(rooms'[rid].users[s])] >>
                ELSE <<>>]_vars

\* C20 happened: a connection has just joined a room that has a log and
\* received the snapshot, and the connection that was in the room received
\* the user_joined
JoinNotifiedSeen ==
  \E k, m \in Sockets :
    /\ k # m
    /\ joined(k) /\ joined(m)
    /\ currentRoom[k] = currentRoom[m]
    /\ Len(emitted[m]) = 1
    /\ emitted[m][1].event = "room_state"
    /\ emitted[m][1].commandLog # <<>>
    /\ Cardinality(emitted[m][1].users) = 2
    /\ Len(emitted[k]) = 1
    /\ emitted[k][1].event = "user_joined"
    /\ emitted[k][1].user.id = currentUser[m].id

\* C21: a join_room whose roomId is empty or not a string is rejected: the
\* requester alone receives an error, the registry (rooms, users), the
\* in-flight tables and the session of every connection are unchanged.
InvalidJoinIsRejected ==
  [][\A s \in Sockets : \A roomId \in RoomIdInputs :
       \A userName \in UserNameInputs :
         (/\ roomId.t # "string" \/ roomId.v = ""
          /\ JoinRoom(s, roomId, userName)) =>
           /\ emitted' = onlyTo({s}, [event   |-> "error",
                                      message |-> "Invalid room ID"])
           /\ UNCHANGED << rooms, inFlightStrokes, sockState, currentRoom,
                           currentUser, socketRooms, nextUuid >>]_vars

\* C21 happened: a joined connection was just told that its roomId is
\* invalid, it is still joined to its room, and the other connection of the
\* room received nothing
InvalidJoinSeen ==
  \E k, m \in Sockets :
    /\ k # m
    /\ joined(k) /\ joined(m)
    /\ currentRoom[k] = currentRoom[m]
    /\ DOMAIN rooms = {currentRoom[k]}
    /\ emitted[k] = << [event |-> "error", message |-> "Invalid room ID"] >>
    /\ emitted[m] = <<>>

\* a draw_end for a tracked stroke appends exactly one command, not undone,
\* and sends it to the whole room; the browser that handles it appends the
\* command and drops the provisional stroke
CommitReachesWholeRoom ==
  [][/\ \A s \in Sockets : \A strokeId \in StrokeIds :
          (~notJoined(s) /\ tracked(s, strokeId) /\ DrawEnd(s, strokeId)) =>
            LET r     == currentRoom[s]
                after == logAfter(r)
                last  == after[Len(after)]
                msg   == [event |-> "draw_end", strokeId |-> strokeId,
                          fullCommand |-> last]
            IN  /\ Len(after) = Len(logOf(r)) + 1
                /\ \A i \in 1..Len(logOf(r)) : after[i] = logOf(r)[i]
                /\ last.id = strokeId
                /\ last.undone = FALSE
                /\ s \in connsIn(r)
                /\ emitted' = onlyTo(connsIn(r), msg)
                /\ \A k \in connsIn(r) : inbox'[k] = Append(inbox[k], msg)
     /\ \A s \in Sockets :
          (Deliver(s) /\ Head(inbox[s]).event = "draw_end") =>
            LET m == Head(inbox[s])
            IN  /\ client'[s].commandLog
                     = Append(client[s].commandLog, m.fullCommand)
                /\ ~MapHas(client'[s].activeStrokes, m.strokeId)]_vars

\* a provisional stroke whose draw_end is on its way to the browser is
\* eventually gone from the browser's provisional strokes
ProvisionalEventuallyReplaced ==
  \A s \in Sockets : \A id \in StrokeIds :
    (/\ MapHas(client[s].activeStrokes, id)
     /\ \E i \in 1..Len(inbox[s]) :
          inbox[s][i].event = "draw_end" /\ inbox[s][i].strokeId = id)
      ~> ~MapHas(client[s].activeStrokes, id)

\* C22: every draw_end for a tracked stroke appends exactly one command,
\* not undone, to the room's log and puts one {strokeId, fullCommand} with
\* that command on the way to every connection of the room, the originator
\* included; the browser that handles it appends the command to its log
\* and drops its provisional stroke of that id, so the originator's
\* provisional stroke is eventually replaced by the committed command.
CommitReplacesProvisional ==
  CommitReachesWholeRoom /\ ProvisionalEventuallyReplaced

\* C22 happened: the originator's browser holds the committed command of
\* the stroke it drew and no provisional stroke of that id, and so does the
\* browser of the other connection of the room
CommitDeliveredSeen ==
  \E k, m \in Sockets :
    /\ k # m
    /\ joined(k) /\ joined(m)
    /\ currentRoom[k] = currentRoom[m]
    /\ client[k].myUser # <<>>
    /\ \E i \in 1..Len(client[k].commandLog) :
         LET cmd == client[k].commandLog[i]
         IN  /\ cmd.authorId = client[k].myUser[1].id
             /\ ~cmd.undone
             /\ ~MapHas(client[k].activeStrokes, cmd.id)
             /\ \E j \in 1..Len(client[m].commandLog) :
                  client[m].commandLog[j] = cmd
             /\ ~MapHas(client[m].activeStrokes, cmd.id)

\* the log after the change a draw_end, undo or redo notification reports
applyNote(log, m) ==
  CASE m.event = "draw_end" -> Append(log, m.fullCommand)
    [] m.event = "undo" ->
         [i \in 1..Len(log) |->
            IF log[i].id = m.commandId THEN withUndone(log[i], TRUE)
            ELSE log[i]]
    [] m.event = "redo" ->
         [i \in 1..Len(log) |->
            IF log[i].id = m.commandId THEN withUndone(log[i], FALSE)
            ELSE log[i]]
    [] OTHER -> log

RECURSIVE replay(_, _)
replay(log, msgs) ==
  IF msgs = <<>> THEN log
  ELSE replay(applyNote(log, Head(msgs)), Tail(msgs))

\* m is the notification of the one change that leads from log old to new
isNote(m, old, new) ==
  \/ /\ Len(new) = Len(old) + 1
     /\ m = [event |-> "draw_end", strokeId |-> new[Len(new)].id,
             fullCommand |-> new[Len(new)]]
  \/ \E p \in 1..Len(old) :
       /\ ~old[p].undone
       /\ new = flagSet(old, p, TRUE)
       /\ m.event = "undo" /\ m.commandId = old[p].id
  \/ \E p \in 1..Len(old) :
       /\ old[p].undone
       /\ new = flagSet(old, p, FALSE)
       /\ m.event = "redo" /\ m.commandId = old[p].id

\* the positions of the room_state messages on their way to browser k
snapshotsTo(k) ==
  { i \in 1..Len(inbox[k]) : inbox[k][i].event = "room_state" }

\* C23: room-local serializability: the positions of a room's log are in
\* the order in which the server processed the draw_end events, and every
\* connection of the room receives the draw_end, undo and redo
\* notifications in the order in which the server applied them: each
\* change of the log puts its one notification at the tail of the queue to
\* every connection of the room in the same step, a queue loses messages
\* at its head only, and the notifications behind a snapshot on its way,
\* applied in order to that snapshot, give the server's log.
ServerOrderIsRoomOrder ==
  /\ [](\A r \in DOMAIN rooms :
          LET log == logOf(r)
              app == history[r].appended
          IN  /\ Len(log) = Len(app)
              /\ \A i \in 1..Len(log) : log[i].id = app[i].id)
  /\ [](\A k \in Sockets :
          (joined(k) /\ snapshotsTo(k) # {}) =>
            LET i == MaxOfSet(snapshotsTo(k))
            IN  replay(inbox[k][i].commandLog,
                       SubSeq(inbox[k], i + 1, Len(inbox[k])))
                  = logOf(currentRoom[k]))
  /\ [][\A r \in RoomIds :
          (MapHas(rooms, r) /\ MapHas(rooms', r) /\ logAfter(r) # logOf(r)) =>
            /\ connsIn(r) # {}
            /\ \A k \in connsIn(r) :
                 /\ Len(emitted'[k]) = 1
                 /\ isNote(emitted'[k][1], logOf(r), logAfter(r))
                 /\ inbox'[k] = Append(inbox[k], emitted'[k][1])]_vars
  /\ [][\A k \in Sockets :
          \/ inbox'[k] = inbox[k]
          \/ inbox'[k] = inbox[k] \o emitted'[k]
          \/ inbox[k] # <<>> /\ inbox'[k] = Tail(inbox[k]) /\ Deliver(k)
          \/ sockState'[k] # "connected" /\ inbox'[k] = <<>>]_vars

\* C23 happened: both connections of a room have the draw_end of a command
\* and the undo of that command on their way, in that order
NotesInOrderSeen ==
  \E k, m \in Sockets :
    /\ k # m
    /\ joined(k) /\ joined(m)
    /\ currentRoom[k] = currentRoom[m]
    /\ Len(inbox[k]) = 2
    /\ inbox[m] = inbox[k]
    /\ inbox[k][1].event = "draw_end"
    /\ inbox[k][2].event = "undo"
    /\ inbox[k][2].commandId = inbox[k][1].strokeId
    /\ \E i \in 1..Len(logOf(currentRoom[k])) :
         /\ logOf(currentRoom[k])[i].id = inbox[k][1].strokeId
         /\ logOf(currentRoom[k])[i].undone

\* the ids of a log with their undone flags
flagsOf(log) ==
  [i \in 1..Len(log) |-> [id |-> log[i].id, undone |-> log[i].undone]]

\* nothing is on its way to a browser and no browser callback is pending
quiescent ==
  \A k \in Sockets : inbox[k] = <<>> /\ frames[k] = <<>>

\* C24: replica convergence: whenever no message is in transit and no
\* browser callback is pending, the local log of every joined browser (ids
\* with undone flags) equals the log of its room on the server.
ReplicasConverge ==
  quiescent =>
    \A k \in Sockets :
      joined(k) =>
        flagsOf(client[k].commandLog) = flagsOf(logOf(currentRoom[k]))

\* C25: two undos of a room processed one after the other, with at least
\* two active entries in the log, flip two different entries, the two
\* active entries at the greatest positions, and once nothing is on its way
\* every browser of the room has these two entries undone.
TwoUndosAgreeEverywhere ==
  \A r \in DOMAIN rooms :
    LET run  == history[r].undoRun
        base == history[r].runBase
        N    == Len(run)
        log  == logOf(r)
    IN  (N >= 2 /\ quiescent) =>
          LET p1 == run[N - 1]
              p2 == run[N]
              A  == { p \in 1..Len(log) :
                        ~log[p].undone \/ p \in {p1, p2} }
          IN  /\ p1 # p2
              /\ log[p1].undone /\ log[p2].undone
              /\ \A p \in A : p <= p1
              /\ \A p \in A \ {p1} : p <= p2
              /\ \A k \in connsIn(r) :
                   /\ Len(client[k].commandLog) = Len(log)
                   /\ client[k].commandLog[p1].id = log[p1].id
                   /\ client[k].commandLog[p2].id = log[p2].id
                   /\ client[k].commandLog[p1].undone
                   /\ client[k].commandLog[p2].undone

\* C26: once a command is in a room's log, no later event changes its id,
\* authorId, points or any other field but undone, and undone changes only
\* in an undo or redo step of a connection of that room.
LoggedCommandIsFrozen ==
  [][\A r \in RoomIds :
       (MapHas(rooms, r) /\ MapHas(rooms', r)) =>
         \A i \in 1..Len(logOf(r)) :
           /\ i <= Len(logAfter(r))
           /\ logAfter(r)[i].id = logOf(r)[i].id
           /\ logAfter(r)[i].authorId = logOf(r)[i].authorId
           /\ logAfter(r)[i].points = logOf(r)[i].points
           /\ commandOf(logAfter(r)[i]) = commandOf(logOf(r)[i])
           /\ logAfter(r)[i].undone # logOf(r)[i].undone =>
                \E s \in Sockets :
                  currentRoom[s] = r /\ (Undo(s) \/ Redo(s))]_vars

\* C26 happened: a command of the log was undone and redone, and a stroke
\* with the id of that command and other points is tracked in the room
FrozenDespiteReuseSeen ==
  \E r \in DOMAIN rooms : \E i \in 1..Len(logOf(r)) :
    LET c == logOf(r)[i]
    IN  /\ history[r].flipped
        /\ ~c.undone
        /\ MapHas(inFlightStrokes, r)
        /\ MapHas(inFlightStrokes[r], c.id)
        /\ inFlightStrokes[r][c.id].points # c.points

\* C27: while a room exists its command log is append-only: across every
\* step the old log is a prefix of the new log as a sequence of ids; undo,
\* redo, the disconnect of an author and every other event remove and
\* reorder nothing.
LogIsAppendOnly ==
  [][\A r \in RoomIds :
       (MapHas(rooms, r) /\ MapHas(rooms', r)) =>
         /\ Len(logAfter(r)) >= Len(logOf(r))
         /\ idsOf(SubSeq(logAfter(r), 1, Len(logOf(r)))) = idsOf(logOf(r))]_vars

\* C27 happened: the log holds an undone entry whose author has left the
\* room, and a command that was appended after it
KeptAfterAuthorLeftSeen ==
  \E r \in DOMAIN rooms :
    LET log == logOf(r)
    IN  /\ Len(log) >= 2
        /\ log[1].undone
        /\ ~log[2].undone
        /\ log[1].id # log[2].id
        /\ \A k \in DOMAIN rooms[r].users :
             rooms[r].users[k].id # log[1].authorId

\* C28: the room_state sent on a join carries the room's whole command log
\* of that instant in log order, the undone entries included with their
\* undone flags, and a users list that is exactly the room's user set, the
\* joiner included.
SnapshotIsWholeRoom ==
  [][\A s \in Sockets : \A rid \in RoomIds : \A userName \in UserNameInputs :
       (/\ userName.t # "number"
        /\ JoinRoom(s, [t |-> "string", v |-> rid], userName)) =>
         LET snap   == emitted'[s][1]
             before == logOf(rid)
             others == IF MapHas(rooms, rid)
                       THEN { publicUser(rooms[rid].users[k]) :
                                k \in DOMAIN rooms[rid].users \ {s} }
                       ELSE {}
         IN  /\ Len(emitted'[s]) = 1
             /\ snap.event = "room_state"
             /\ Len(snap.commandLog) = Len(before)
             /\ \A i \in 1..Len(before) : snap.commandLog[i] = before[i]
             /\ snap.commandLog = logAfter(rid)
             /\ snap.users = others \cup {publicUser(currentUser'[s])}
             /\ snap.users = { publicUser(rooms'[rid].users[k]) :
                                 k \in DOMAIN rooms'[rid].users }
             /\ snap.myUser = currentUser'[s]
             /\ publicUser(snap.myUser) \notin others]_vars

\* C28 happened: a joiner has just received a snapshot with an undone entry
\* before an active one and with two users
SnapshotWithUndoneSeen ==
  \E s \in Sockets :
    /\ joined(s)
    /\ Len(emitted[s]) = 1
    /\ emitted[s][1].event = "room_state"
    /\ Cardinality(emitted[s][1].users) = 2
    /\ Len(emitted[s][1].commandLog) >= 2
    /\ emitted[s][1].commandLog[1].undone
    /\ ~emitted[s][1].commandLog[2].undone
    /\ emitted[s][1].commandLog = logOf(currentRoom[s])

\* C29: a draw_start, a draw_continue for a tracked stroke (carrying its
\* points array) and a cursor_move of a joined connection go to every other
\* connection of its room and to nobody else, never to the sender; a
\* cursor_move changes nothing the server holds (logs, in-flight tables,
\* users).
RelayToOthersOnly ==
  [][\A s \in Sockets :
       ~notJoined(s) =>
         LET r      == currentRoom[s]
             others == connsIn(r) \ {s}
         IN  /\ \A strokeId \in StrokeIds, points \in StartPoints,
                   color \in Colors, width \in Widths, tool \in Tools :
                  DrawStart(s, strokeId, points, color, width, tool) =>
                    emitted' = onlyTo(others,
                      [event |-> "draw_start", strokeId |-> strokeId,
                       points |-> points, color |-> color, width |-> width,
                       tool |-> tool, authorId |-> currentUser[s].id,
                       authorColor |-> currentUser[s].color])
             /\ \A strokeId \in StrokeIds, points \in ContinuePoints :
                  (tracked(s, strokeId) /\ points # <<>>
                     /\ DrawContinue(s, strokeId, points)) =>
                    emitted' = onlyTo(others,
                      [event |-> "draw_continue", strokeId |-> strokeId,
                       points |-> points])
             /\ \A p \in CursorPoints :
                  CursorMove(s, p) =>
                    /\ emitted' = onlyTo(others,
                         [event |-> "cursor_move",
                          userId |-> currentUser[s].id,
                          name |-> currentUser[s].name,
                          color |-> currentUser[s].color,
                          x |-> p.x, y |-> p.y])
                    /\ UNCHANGED << rooms, inFlightStrokes, sockState,
                                    currentRoom, currentUser, socketRooms,
                                    nextUuid >>]_vars

\* C29 happened: the other connection of the room has just received the
\* draw_continue of a tracked stroke and the sender has received nothing
RelayedToOtherSeen ==
  \E k, m \in Sockets :
    /\ k # m
    /\ joined(k) /\ joined(m)
    /\ currentRoom[k] = currentRoom[m]
    /\ emitted[m] = <<>>
    /\ Len(emitted[k]) = 1
    /\ emitted[k][1].event = "draw_continue"
    /\ tracked(m, emitted[k][1].strokeId)
    /\ Len(inFlightStrokes[currentRoom[m]][emitted[k][1].strokeId].points) = 2

\* C30: when a joined connection disconnects, one user_left with its user
\* id goes to every remaining connection of its room and to no other
\* connection, its entry leaves the room's user set, and the room is
\* deleted in the same step if no user remains in that set (and kept
\* otherwise).
DisconnectNotifiesRoom ==
  [][\A s \in Sockets :
       (joined(s) /\ Disconnect(s)) =>
         LET r    == currentRoom[s]
             rest == connsIn(r) \ {s}
             left == DOMAIN rooms[r].users \ {s}
         IN  /\ MapHas(rooms, r)
             /\ MapHas(rooms[r].users, s)
             /\ rooms[r].users[s].id = currentUser[s].id
             /\ emitted' = onlyTo(rest, [event  |-> "user_left",
                                         userId |-> currentUser[s].id])
             /\ \A k \in Sockets :
                  (sockState[k] = "connected" /\ currentRoom[k] # r) =>
                    emitted'[k] = <<>>
             /\ left = {} => ~MapHas(rooms', r)
             /\ left # {} =>
                  /\ MapHas(rooms', r)
                  /\ DOMAIN rooms'[r].users = left
                  /\ rest \subseteq left]_vars

\* C30 happened: a connection has closed, the connection that stays in its
\* room has just received the user_left with the user id of the closed one,
\* and the room is kept with the remaining user alone
UserLeftSeen ==
  \E s, k \in Sockets :
    /\ sockState[s] = "closed"
    /\ currentRoom[s] # NULL
    /\ joined(k)
    /\ currentRoom[k] = currentRoom[s]
    /\ emitted[k] = << [event |-> "user_left", userId |-> currentUser[s].id] >>
    /\ MapHas(rooms, currentRoom[k])
    /\ DOMAIN rooms[currentRoom[k]].users = {k}

\* C31: the user id of a connection is assigned once and stays the same for
\* the lifetime of the connection: no later event, a further join_room to
\* the same or another room included, changes the user id under which the
\* connection acts.
UserIdIsStable ==
  [][\A s \in Sockets :
       MapHas(currentUser, s) =>
         /\ MapHas(currentUser', s)
         /\ currentUser'[s].id = currentUser[s].id]_vars

\* the colour cursor of room r (0 for a room that is not in the registry: a
\* new Room starts at 0)
cursorOf(rs, r) == IF MapHas(rs, r) THEN rs[r].colorIndex ELSE 0

\* C32: colours are assigned round-robin per room: the k-th addUser call
\* (k = 0, 1, 2, ...) on a room instance gets palette[k mod 10]; the cursor
\* goes up by exactly one per addUser and is never decreased by a user
\* leaving (it changes in no other step of the instance).
ColoursAreRoundRobin ==
  [][/\ \A s \in Sockets : \A rid \in RoomIds : \A userName \in UserNameInputs :
          (/\ userName.t # "number"
           /\ JoinRoom(s, [t |-> "string", v |-> rid], userName)) =>
            LET k == cursorOf(rooms, rid)
            IN  /\ currentUser'[s].color = USER_COLORS[(k % 10) + 1]
                /\ rooms'[rid].users[s].color = USER_COLORS[(k % 10) + 1]
                /\ rooms'[rid].colorIndex = k + 1
     /\ \A r \in DOMAIN rooms :
          MapHas(rooms', r) =>
            /\ rooms'[r].colorIndex >= rooms[r].colorIndex
            /\ rooms'[r].colorIndex # rooms[r].colorIndex =>
                 \E s \in Sockets, userName \in UserNameInputs :
                   JoinRoom(s, [t |-> "string", v |-> r], userName)
     /\ \A r \in DOMAIN rooms' :
          ~MapHas(rooms, r) => rooms'[r].colorIndex \in {0, 1}]_vars

\* C32 happened: the eleventh user of a room instance has the first colour
\* of the palette again, in a room that holds two users
PaletteWrappedSeen ==
  \E r \in DOMAIN rooms : \E k \in DOMAIN rooms[r].users :
    /\ rooms[r].colorIndex = 11
    /\ Cardinality(DOMAIN rooms[r].users) = 2
    /\ rooms[r].users[k].color = USER_COLORS[1]
    /\ \A m \in DOMAIN rooms[r].users : rooms[r].users[m].id <= rooms[r].users[k].id

\* the page of connection t was in a room and has been reconnected: it has
\* its user of before, the server has no room for the new connection
reconnected(t) ==
  /\ sockState[t] = "connected"
  /\ client[t].myUser # <<>>
  /\ currentRoom[t] = NULL
  /\ inbox[t] = <<>>

\* C33: when the connection of a page drops while the page has a stroke in
\* progress and the page reconnects, the page receives the room's state
\* (its new connection is joined to a room) and the discarded stroke is
\* eventually gone from the page's active-stroke table, unless the page is
\* closed or its connection drops again first.
DroppedStrokeDisappears ==
  \A t \in Sockets : \A id \in StrokeIds :
    (reconnected(t) /\ MapHas(client[t].activeStrokes, id))
      ~> \/ sockState[t] = "closed"
         \/ currentRoom[t] # NULL /\ ~MapHas(client[t].activeStrokes, id)

\* stroke strokeId is tracked in the room of connection s and was begun by
\* another connection
foreignStroke(s, strokeId) ==
  /\ tracked(s, strokeId)
  /\ \E k \in Sockets \ {s} :
       /\ MapHas(currentUser, k)
       /\ currentUser[k].id = inFlightStrokes[currentRoom[s]][strokeId].authorId

\* C34: an in-flight stroke is changed or committed only by events of the
\* connection that began it: a draw_start, draw_continue or draw_end of
\* another connection of the room with the same strokeId leaves the stroke
\* and the log as they were, so the authorId of a committed command is the
\* user id of the connection whose draw_end committed it.
StrokeIsOwnedByItsConnection ==
  [][\A s \in Sockets : \A strokeId \in StrokeIds :
       (/\ foreignStroke(s, strokeId)
        /\ \/ \E points \in StartPoints, color \in Colors, width \in Widths,
                 tool \in Tools :
                DrawStart(s, strokeId, points, color, width, tool)
           \/ \E points \in ContinuePoints :
                DrawContinue(s, strokeId, points)
           \/ DrawEnd(s, strokeId)) =>
            /\ MapHas(inFlightStrokes', currentRoom[s])
            /\ MapHas(inFlightStrokes'[currentRoom[s]], strokeId)
            /\ inFlightStrokes'[currentRoom[s]][strokeId]
                 = inFlightStrokes[currentRoom[s]][strokeId]
            /\ logAfter(currentRoom[s]) = logOf(currentRoom[s])]_vars

\* C35: a command committed after the room_state snapshot of a browser was
\* taken is never lost by that browser: the frame callback that installs
\* the snapshot keeps every entry the browser's log held (they came with
\* the draw_end, undo and redo notifications handled since room_state), and
\* with nothing more on its way to the browser the installed log is the
\* server's log.
SnapshotInstallLosesNothing ==
  [][\A s \in Sockets :
       (joined(s) /\ Frame(s)) =>
         LET old == flagsOf(client[s].commandLog)
             new == flagsOf(client'[s].commandLog)
         IN  /\ \A i \in 1..Len(old) : \E j \in 1..Len(new) : new[j] = old[i]
             /\ (inbox[s] = <<>> /\ frames'[s] = <<>>) =>
                  new = flagsOf(logOf(currentRoom[s]))]_vars

\* C36: a commit leaves the undone flag of every entry of the log as it
\* was (an undone command is neither re-activated nor discarded), so a redo
\* that follows an undo and a new commit re-activates the earlier undone
\* command, which then stands before the new command in the active
\* commands.
CommitKeepsUndone ==
  [][\A s \in Sockets :
       joined(s) =>
         LET r   == currentRoom[s]
             old == logOf(r)
             new == logAfter(r)
         IN  /\ \A strokeId \in StrokeIds :
                  (tracked(s, strokeId) /\ DrawEnd(s, strokeId)) =>
                    /\ Len(new) = Len(old) + 1
                    /\ \A i \in 1..Len(old) : new[i] = old[i]
             /\ (Redo(s) /\ \E p \in 1..Len(old) :
                               old[p].undone
                               /\ \A q \in (p + 1)..Len(old) : ~old[q].undone) =>
                  LET p   == MaxOf(undonePositions(old))
                      act == getActiveCommands(rooms'[r].drawingState)
                      n   == Cardinality({ q \in 1..p : ~new[q].undone })
                  IN  /\ new = flagSet(old, p, FALSE)
                      /\ act[n] = new[p]
                      /\ \A q \in (p + 1)..Len(new) :
                           act[n + q - p] = new[q]]_vars

\* C36 happened: a redo has just re-activated the first command of the log
\* while the command after it, the only other one, is active, both
\* commands being of different ids
RedoBeforeNewerSeen ==
  \E r \in DOMAIN rooms : \E k \in connsIn(r) :
    LET log == logOf(r)
    IN  /\ Len(log) = 2
        /\ ~log[1].undone /\ ~log[2].undone
        /\ log[1].id # log[2].id
        /\ Len(emitted[k]) = 1
        /\ emitted[k][1].event = "redo"
        /\ emitted[k][1].commandId = log[1].id
        /\ idsOf(getActiveCommands(rooms[r].drawingState)) = << log[1].id, log[2].id >>

\* browser s holds the preview of a stroke another user began
remotePreview(s, id) ==
  /\ sockState[s] = "connected"
  /\ MapHas(client[s].activeStrokes, id)
  /\ ~client[s].activeStrokes[id].isLocal

\* C37: every remote in-flight preview a browser holds is eventually
\* removed: once the user_left of the user who began the stroke is on its
\* way to the browser (with two browsers every remote preview is of the one
\* other user), the stroke eventually is no longer in the browser's
\* active-stroke table, as it is after the stroke's draw_end.
RemotePreviewEventuallyRemoved ==
  \A s \in Sockets : \A id \in StrokeIds :
    (/\ remotePreview(s, id)
     /\ \E i \in 1..Len(inbox[s]) : inbox[s][i].event = "user_left")
      ~> (sockState[s] = "closed" \/ ~MapHas(client[s].activeStrokes, id))

\* C38: the draw_start, draw_continue, draw_end, cursor_move, undo, redo
\* and disconnect of a connection that has joined no room change nothing
\* the server holds (rooms, logs, users, in-flight tables), create no room
\* and send nothing to any connection; the disconnect closes the
\* connection itself.
UnjoinedEventsAreNoOps ==
  [][\A s \in Sockets :
       (/\ sockState[s] = "connected"
        /\ currentRoom[s] = NULL
        /\ \/ \E strokeId \in StrokeIds, points \in StartPoints,
                 color \in Colors, width \in Widths, tool \in Tools :
                DrawStart(s, strokeId, points, color, width, tool)
           \/ \E strokeId \in StrokeIds, points \in ContinuePoints :
                DrawContinue(s, strokeId, points)
           \/ \E strokeId \in StrokeIds : DrawEnd(s, strokeId)
           \/ \E p \in CursorPoints : CursorMove(s, p)
           \/ Undo(s)
           \/ Redo(s)
           \/ Disconnect(s)) =>
         /\ emitted' = NoEmit
         /\ DOMAIN rooms' = DOMAIN rooms
         /\ UNCHANGED << rooms, inFlightStrokes, currentRoom, currentUser,
                         socketRooms, nextUuid >>
         /\ \A k \in Sockets \ {s} : sockState'[k] = sockState[k]
         /\ sockState'[s] \in {"connected", "closed"}
         /\ sockState'[s] = "closed" => Disconnect(s)]_vars

\* C38 happened: a connection that never joined has closed, and the room of
\* the other connection, its user and its in-flight stroke are there
UnjoinedClosedSeen ==
  \E s, k \in Sockets :
    /\ sockState[s] = "closed"
    /\ currentRoom[s] = NULL
    /\ ~MapHas(currentUser, s)
    /\ joined(k)
    /\ MapHas(rooms, currentRoom[k])
    /\ MapHas(rooms[currentRoom[k]].users, k)
    /\ MapHas(inFlightStrokes, currentRoom[k])
    /\ inFlightStrokes[currentRoom[k]] # EmptyMap
    /\ emitted = NoEmit

\* ------------------------------------------- the user lists of the room

\* joinBtn click: the handler sends join_room whenever it runs; the button
\* is on the room screen, which the room_state handler hides
JoinClick(s) ==
  /\ client[s].myUser = <<>>
  /\ JoinRoom(s, LogRoomId, LogUserName)
  /\ sent
  /\ UNCHANGED << client, frames >>

NextMembers ==
  \/ \E s \in Sockets : Connect(s) /\ UNCHANGED clientVars
  \/ \E s \in Sockets : nextUuid <= MaxJoins /\ JoinClick(s) /\ InboxBound
  \/ \E s \in Sockets : ClientClose(s)
  \/ \E s \in Sockets : Deliver(s)
  \/ \E s \in Sockets : Frame(s)

SpecMembers == Init /\ [][NextMembers]_vars

\* the user ids of the list a browser shows
listedIds(s) == { u.id : u \in client[s].userList }

\* C39: membership views agree: whenever no message is in transit, the user
\* list of each client joined to a room has exactly the user ids of the
\* server's user set of that room, and that set has exactly one user per
\* connection now joined to the room.
MembershipViewsAgree ==
  quiescent =>
    \A r \in DOMAIN rooms :
      connsIn(r) # {} =>
        /\ \A s \in connsIn(r) :
             listedIds(s) = { u.id : u \in getUserList(rooms[r]) }
        /\ DOMAIN rooms[r].users = connsIn(r)
        /\ Cardinality(getUserList(rooms[r])) = Cardinality(connsIn(r))

====
